---- MODULE Spec2Model ----
(***************************************************************************)
(* Model of the quiz-generation pipeline of src/openai_mw.py:              *)
(* rate limiter (rate_limit_decorator), response cache (cache_response,    *)
(* get_cached_response), request validation, backend call, response        *)
(* parser and the generate_quiz handler that composes them.                *)
(*                                                                         *)
(* A request is handled by a thread; every access to the two shared        *)
(* dictionaries RATE_LIMIT_CACHE and REQUEST_CACHE is one step, so that a  *)
(* specification with one thread gives the sequential behaviour and a      *)
(* specification with two threads gives every interleaving the threaded    *)
(* server can produce.  Time is in seconds and advances by Tick.           *)
(*                                                                         *)
(* The pure functions of src/utils/validation.py, src/app.py and           *)
(* src/utils/text_processing.py are operators; the specification SpecFn    *)
(* applies each of them once to an input drawn from a bounded set.         *)
(*                                                                         *)
(* The classes with state of src/models/user_models.py and                 *)
(* src/utils/helpers.py are objects: self holds the attributes of the      *)
(* object and the specification SpecObj applies its methods in every       *)
(* order.                                                                  *)
(***************************************************************************)
EXTENDS Integers, Sequences, FiniteSets, TLC

VARIABLES now, ticks, started,
          RATE_LIMIT_CACHE, REQUEST_CACHE, request_count, error_count,
          pc, req, loc, out, stages,
          calls, allowed, lastPut,
          fn, arg, ret, self, hist

vars == <<now, ticks, started, RATE_LIMIT_CACHE, REQUEST_CACHE, request_count,
          error_count, pc, req, loc, out, stages, calls, allowed, lastPut,
          fn, arg, ret, self, hist>>

(***************************************************************************)
(* Bounds of the model.                                                    *)
(***************************************************************************)
\* number of clock advances in a behaviour
MaxTicks == 2
\* number of requests started in a behaviour
MaxRequests == 3
\* the configured ceiling; the source sets 60 (src/openai_mw.py:52), the
\* model runs the same code with a small ceiling
MAX_REQUESTS_PER_MINUTE == 2

(***************************************************************************)
(* Program constants.                                                      *)
(***************************************************************************)
\* cache time-to-live in seconds (the literal 3600 of cache_response and
\* get_cached_response)
TTL == 3600
\* length of a rate-limit bucket in seconds: int(time.time() / 60)
BucketSeconds == 60
\* buckets older than current_time - 5 are cleaned
CleanupAge == 5
\* questions must be between 1 and 50
MinQuestions == 1
MaxQuestions == 50

\* the clock advances the model takes: one bucket, and one bucket less than
\* the TTL (so that ages below the TTL, equal to it and above it all occur)
Jumps == {BucketSeconds, TTL - BucketSeconds}

Clients == {"10.0.0.1", "10.0.0.2"}

(***************************************************************************)
(* Request bodies.  A body is the JSON object of the request: the set of   *)
(* keys present and their values.  A topic is a sequence of characters.    *)
(***************************************************************************)
Body(isj, flds, t, qi, qv, lang) ==
    [is_json |-> isj, fields |-> flds, topic |-> t,
     questions |-> [int |-> qi, val |-> qv], language |-> lang]

AllFields == {"topic", "questions", "language"}

Bodies ==
    { Body(TRUE, AllFields, <<"a">>, TRUE, 2, "english"),
      Body(TRUE, AllFields, <<"b">>, TRUE, 1, "italian"),
      Body(TRUE, AllFields, <<>>, TRUE, 2, "english"),
      Body(TRUE, AllFields, <<" ">>, TRUE, 2, "english"),
      Body(TRUE, AllFields, <<"a">>, TRUE, 51, "english"),
      Body(TRUE, AllFields, <<"a">>, FALSE, 0, "english"),
      Body(TRUE, AllFields, <<"a">>, TRUE, 2, "English"),
      Body(TRUE, {"topic", "questions"}, <<"a">>, TRUE, 2, "english"),
      Body(FALSE, {}, <<>>, TRUE, 0, "") }

\* the whitespace characters of the texts of the model
Whitespace == {" ", "\n", "\t"}

\* str.strip(): the sequence without leading and trailing whitespace
RECURSIVE LStrip(_)
LStrip(s) == IF s # <<>> /\ Head(s) \in Whitespace THEN LStrip(Tail(s)) ELSE s

RECURSIVE RStrip(_)
RStrip(s) ==
    IF s # <<>> /\ s[Len(s)] \in Whitespace
    THEN RStrip(SubSeq(s, 1, Len(s) - 1)) ELSE s

Strip(s) == RStrip(LStrip(s))

valid_languages == {"italian", "english", "french", "spanish", "german"}

validate_no_topic_check(data) ==
    IF AllFields \ data.fields # {}
    THEN [ok |-> FALSE, msg |-> "Missing required field"]
    ELSE IF ~data.questions.int
    THEN [ok |-> FALSE, msg |-> "Questions must be a valid number"]
    ELSE IF data.questions.val < MinQuestions \/ data.questions.val > MaxQuestions
    THEN [ok |-> FALSE, msg |-> "Number of questions must be between 1 and 50"]
    ELSE IF data.language \notin valid_languages
    THEN [ok |-> FALSE, msg |-> "Language must be one of"]
    ELSE [ok |-> TRUE, msg |-> "Valid"]

\* validate_request_data: the first failing check decides the message
validate_request_data(data) ==
    IF AllFields \ data.fields # {}
    THEN [ok |-> FALSE, msg |-> "Missing required field"]
    ELSE IF Len(Strip(data.topic)) = 0
    THEN [ok |-> FALSE, msg |-> "Topic must be a non-empty string"]
    ELSE IF ~data.questions.int
    THEN [ok |-> FALSE, msg |-> "Questions must be a valid number"]
    ELSE IF data.questions.val < MinQuestions \/ data.questions.val > MaxQuestions
    THEN [ok |-> FALSE, msg |-> "Number of questions must be between 1 and 50"]
    ELSE IF data.language \notin valid_languages
    THEN [ok |-> FALSE, msg |-> "Language must be one of"]
    ELSE [ok |-> TRUE, msg |-> "Valid"]

language_map(l) ==
    CASE l = "italian" -> "italiano"
      [] l = "english" -> "inglese"
      [] l = "french" -> "francese"
      [] l = "spanish" -> "spagnolo"
      [] l = "german" -> "tedesco"
      [] OTHER -> "inglese"

\* build_openai_prompt: the prompt text is the fixed template filled with
\* these four values
build_openai_prompt(data) ==
    [topic |-> data.topic, questions |-> data.questions.val,
     difficulty |-> "intermediate", lang |-> language_map(data.language)]

\* generate_prompt_hash: the first 16 hex digits of the SHA-256 of the
\* prompt; distinct prompts of the model have distinct hashes
generate_prompt_hash(prompt) == <<"sha256", prompt>>

\* the bodies the requests of the model carry: two valid ones with different
\* prompts and one that fails validation
RequestBodies ==
    { Body(TRUE, AllFields, <<"a">>, TRUE, 2, "english"),
      Body(TRUE, AllFields, <<"b">>, TRUE, 1, "italian"),
      Body(TRUE, AllFields, <<>>, TRUE, 2, "english") }

(***************************************************************************)
(* Backend responses.  A raw response is a text (a sequence of characters  *)
(* in which only the braces matter) together with the JSON value its       *)
(* brace-delimited part denotes when that part is well formed.             *)
(***************************************************************************)
Question(flds, opts, corr) ==
    [fields |-> flds, risposte |-> opts, risposta_corretta |-> corr]

QFields == {"domanda", "risposte", "risposta_corretta"}
TopFields == {"topic", "sintesi", "questionario"}

Doc(id, flds, isl, qs) ==
    [id |-> id, fields |-> flds, is_list |-> isl, questionario |-> qs]

GoodQ == Question(QFields, {"A", "B", "C", "D"}, "A")

DocA == Doc("quizA", TopFields, TRUE, <<GoodQ, GoodQ>>)
DocB == Doc("quizB", TopFields, TRUE, <<GoodQ>>)
\* the correct letter is no key of the options
DocBadRef == Doc("badref", TopFields, TRUE,
                 <<Question(QFields, {"A", "B"}, "Z")>>)
\* a single option
DocOneOpt == Doc("oneopt", TopFields, TRUE, <<Question(QFields, {"A"}, "A")>>)
DocNoSintesi == Doc("nosintesi", {"topic", "questionario"}, TRUE, <<GoodQ>>)
DocNotList == Doc("notlist", TopFields, FALSE, <<>>)
DocNoCorrect ==
    Doc("nocorrect", TopFields, TRUE,
        <<GoodQ, Question({"domanda", "risposte"}, {"A", "B"}, "A")>>)

Wrapped == <<"t", "{", "t", "}", "t">>

RawResponses ==
    { [text |-> Wrapped, doc |-> DocA],
      [text |-> <<"{", "}">>, doc |-> DocB],
      [text |-> Wrapped, doc |-> DocBadRef],
      [text |-> Wrapped, doc |-> DocOneOpt],
      [text |-> Wrapped, doc |-> DocNoSintesi],
      [text |-> Wrapped, doc |-> DocNotList],
      [text |-> Wrapped, doc |-> DocNoCorrect],
      [text |-> <<"t", "t">>, doc |-> DocA],
      [text |-> <<"}", "t", "{">>, doc |-> DocA],
      [text |-> <<"{", "t">>, doc |-> DocA],
      [text |-> <<"{", "{", "}">>, doc |-> DocA] }

\* the answers the backend of the model gives: a well-formed quiz, a quiz
\* whose correct letter is no option, and a text without JSON
BackendAnswers ==
    { [text |-> Wrapped, doc |-> DocA],
      [text |-> <<"{", "}">>, doc |-> DocBadRef],
      [text |-> <<"t", "t">>, doc |-> DocA] }

\* str.find(c): 0-based index of the first c, -1 when there is none
Find(s, c) ==
    IF \E i \in 1..Len(s) : s[i] = c
    THEN (CHOOSE i \in 1..Len(s) : s[i] = c /\ \A j \in 1..(i - 1) : s[j] # c) - 1
    ELSE -1

\* str.rfind(c): 0-based index of the last c, -1 when there is none
RFind(s, c) ==
    IF \E i \in 1..Len(s) : s[i] = c
    THEN (CHOOSE i \in 1..Len(s) :
              s[i] = c /\ \A j \in (i + 1)..Len(s) : s[j] # c) - 1
    ELSE -1

\* s[a:b] for 0 <= a and 0 <= b (empty when b <= a)
Slice(s, a, b) == SubSeq(s, a + 1, b)

\* nesting depth after the first n characters
RECURSIVE Depth(_, _)
Depth(s, n) ==
    IF n = 0 THEN 0
    ELSE Depth(s, n - 1) + (IF s[n] = "{" THEN 1 ELSE IF s[n] = "}" THEN -1 ELSE 0)

\* json.loads succeeds on a text that is one object: it opens with a brace,
\* the braces balance and the object closes only at the last character
JsonLoadsOk(s) ==
    /\ Len(s) >= 2
    /\ s[1] = "{"
    /\ s[Len(s)] = "}"
    /\ Depth(s, Len(s)) = 0
    /\ \A n \in 1..(Len(s) - 1) : Depth(s, n) > 0

Failure(msg) == [success |-> FALSE, error |-> msg, data |-> DocNotList]

\* index of the first question missing a required field, 0 when none
FirstBadQuestion(qs) ==
    IF \E i \in 1..Len(qs) : QFields \ qs[i].fields # {}
    THEN CHOOSE i \in 1..Len(qs) :
             /\ QFields \ qs[i].fields # {}
             /\ \A j \in 1..(i - 1) : QFields \ qs[j].fields = {}
    ELSE 0

\* process_openai_response
process_openai_response(raw) ==
    LET json_start == Find(raw.text, "{")
        json_end == RFind(raw.text, "}") + 1
    IN  IF json_start = -1 \/ json_end = 0
        THEN Failure("No valid JSON found in response")
        ELSE IF ~JsonLoadsOk(Slice(raw.text, json_start, json_end))
        THEN Failure("Invalid JSON in response")
        ELSE IF TopFields \ raw.doc.fields # {}
        THEN Failure("Missing required field in response")
        ELSE IF ~raw.doc.is_list
        THEN Failure("Questionario must be a list")
        ELSE IF FirstBadQuestion(raw.doc.questionario) # 0
        THEN Failure("Missing field in question")
        ELSE [success |-> TRUE, error |-> "", data |-> raw.doc]

(***************************************************************************)
(* Shared state and the threads.                                           *)
(***************************************************************************)
NoHash == <<>>

NoResponse ==
    [success |-> FALSE, data |-> DocNotList, prompt_hash |-> NoHash,
     from_cache |-> FALSE]

NoEntry ==
    [response |-> NoResponse, timestamp |-> 0, usage_count |-> 0, oid |-> 0]

NoBody == Body(FALSE, {}, <<>>, TRUE, 0, "")

NoReq == [id |-> 0, client |-> "", body |-> NoBody, current_time |-> 0]

NoLoc ==
    [tmp |-> 0, rl_rm |-> {}, hash |-> NoHash, cached |-> NoEntry,
     expired |-> FALSE, final |-> NoResponse, sweep_time |-> 0, c_rm |-> {}]

NoOut == [status |-> 0, kind |-> "none", body |-> NoResponse, error |-> {}]

\* key = f"{client_ip}_{current_time}"; k.split('_')[1] is the bucket
Key(p) == <<req[p].client, req[p].current_time>>

BucketOf(k) == k[2]

Threads == DOMAIN pc

\* d[k] = v
SetItem(d, k, v) == [x \in DOMAIN d \cup {k} |-> IF x = k THEN v ELSE d[x]]

\* del d[k]
DelItem(d, k) == [x \in DOMAIN d \ {k} |-> d[x]]

\* d.get(k, 0) of a counting map
Count(d, k) == IF k \in DOMAIN d THEN d[k] ELSE 0

Bump(d, k) == SetItem(d, k, Count(d, k) + 1)

Min(a, b) == IF a < b THEN a ELSE b
Max(a, b) == IF a > b THEN a ELSE b

\* the keys of the 'error' object of an error response (lines 126-131)
ErrorFields == {"message", "code", "details", "timestamp"}

\* create_error_response(error, status_code)
create_error_response(kind, status_code) ==
    [status |-> status_code, kind |-> kind, body |-> NoResponse,
     error |-> ErrorFields]

InitShared ==
    /\ now = 0
    /\ ticks = 0
    /\ started = 0
    /\ RATE_LIMIT_CACHE = <<>>
    /\ REQUEST_CACHE = <<>>
    /\ request_count = 0
    /\ error_count = 0
    /\ calls = <<>>
    /\ allowed = <<>>
    /\ lastPut = <<>>

\* no object of the utility modules exists
NoObject ==
    /\ self = <<>>
    /\ hist = <<>>

\* no function of the utility modules is being applied
NoCall ==
    /\ fn = "none"
    /\ arg = <<>>
    /\ ret = <<>>
    /\ NoObject

InitThreads(T) ==
    /\ pc = [p \in T |-> "idle"]
    /\ req = [p \in T |-> NoReq]
    /\ loc = [p \in T |-> NoLoc]
    /\ out = [p \in T |-> NoOut]
    /\ stages = [p \in T |-> {}]

\* one request at a time
Init == InitShared /\ InitThreads({1}) /\ NoCall

\* two requests in flight
InitConc == InitShared /\ InitThreads({1, 2}) /\ NoCall

Goto(p, l) == pc' = [pc EXCEPT ![p] = l]

\* the request ends with response o
Respond(p, o) ==
    /\ pc' = [pc EXCEPT ![p] = "done"]
    /\ out' = [out EXCEPT ![p] = o]

\* an exception outside generate_quiz's try block: the server answers 500
Uncaught(p) == Respond(p, create_error_response("crash", 500))

\* an exception inside generate_quiz's try block (lines 430-432)
Caught(p) == Respond(p, create_error_response("crash", 500))

\* the admission decision of the request of p is made: ok says whether the
\* wrapped handler is called
Decided(p, ok) ==
    /\ calls' = Bump(calls, Key(p))
    /\ allowed' = IF ok THEN Bump(allowed, Key(p)) ELSE allowed

Stage(p, s) == stages' = [stages EXCEPT ![p] = @ \cup {s}]

Clock == <<now, ticks>>
Counters == <<request_count, error_count>>
Ghost == <<calls, allowed, lastPut>>
Applied == <<fn, arg, ret, self, hist>>

(***************************************************************************)
(* Time and the arrival of a request.                                      *)
(***************************************************************************)
\* the places where the next step of a thread reads the clock (lines 67,
\* 110, 94 and 99)
ReadsClock == {"idle", "c_valid", "put", "sweep"}

\* the clock is only observed where it is read: an advance anywhere else
\* is the same advance just before the next read
TickBy(J) ==
    /\ ticks < MaxTicks
    /\ \E p \in Threads : pc[p] \in ReadsClock
    /\ \E d \in J : now' = now + d
    /\ ticks' = ticks + 1
    /\ UNCHANGED <<Applied, started, RATE_LIMIT_CACHE, REQUEST_CACHE, Counters, pc, req,
                   loc, out, stages, Ghost>>

\* wrapper, lines 66-69: client_ip, current_time and key.  The threads are
\* interchangeable: of the idle ones the first takes the request
StartFrom(p, C, B) ==
    /\ pc[p] = "idle"
    /\ \A q \in Threads : q < p => pc[q] # "idle"
    /\ started < MaxRequests
    /\ \E c \in C, b \in B :
          req' = [req EXCEPT ![p] = [id |-> started + 1, client |-> c, body |-> b,
                                     current_time |-> now \div BucketSeconds]]
    /\ started' = started + 1
    /\ Goto(p, "rl_check")
    /\ UNCHANGED <<Applied, Clock, RATE_LIMIT_CACHE, REQUEST_CACHE, Counters, loc, out,
                   stages, Ghost>>

(***************************************************************************)
(* rate_limit_decorator.wrapper, lines 71-87.                              *)
(***************************************************************************)
\* line 71: if key in RATE_LIMIT_CACHE
RlCheck(p) ==
    /\ pc[p] = "rl_check"
    /\ Goto(p, IF Key(p) \in DOMAIN RATE_LIMIT_CACHE THEN "rl_limit" ELSE "rl_new")
    /\ UNCHANGED <<Applied, Clock, started, RATE_LIMIT_CACHE, REQUEST_CACHE, Counters, req,
                   loc, out, stages, Ghost>>

OverLimitOffByOne(c) == c > MAX_REQUESTS_PER_MINUTE

\* the test of line 72
OverLimit(c) == c >= MAX_REQUESTS_PER_MINUTE

\* lines 72-77: if RATE_LIMIT_CACHE[key] >= MAX_REQUESTS_PER_MINUTE: 429
RlLimit(p) ==
    /\ pc[p] = "rl_limit"
    /\ IF Key(p) \notin DOMAIN RATE_LIMIT_CACHE
       THEN Uncaught(p) /\ Decided(p, FALSE)
       ELSE IF OverLimit(RATE_LIMIT_CACHE[Key(p)])
       THEN /\ Respond(p, create_error_response("rate_limited", 429))
            /\ Decided(p, FALSE)
       ELSE Goto(p, "rl_load") /\ UNCHANGED <<out, calls, allowed>>
    /\ UNCHANGED <<Applied, Clock, started, RATE_LIMIT_CACHE, REQUEST_CACHE, Counters, req,
                   loc, stages, lastPut>>

\* line 78, RATE_LIMIT_CACHE[key] += 1: the read
RlLoad(p) ==
    /\ pc[p] = "rl_load"
    /\ IF Key(p) \notin DOMAIN RATE_LIMIT_CACHE
       THEN Uncaught(p) /\ Decided(p, FALSE) /\ UNCHANGED loc
       ELSE /\ loc' = [loc EXCEPT ![p].tmp = RATE_LIMIT_CACHE[Key(p)]]
            /\ Goto(p, "rl_store")
            /\ UNCHANGED <<out, calls, allowed>>
    /\ UNCHANGED <<Applied, Clock, started, RATE_LIMIT_CACHE, REQUEST_CACHE, Counters, req,
                   stages, lastPut>>

\* line 78, RATE_LIMIT_CACHE[key] += 1: the write, then line 87
RlStore(p) ==
    /\ pc[p] = "rl_store"
    /\ RATE_LIMIT_CACHE' = SetItem(RATE_LIMIT_CACHE, Key(p), loc[p].tmp + 1)
    /\ loc' = [loc EXCEPT ![p].tmp = 0]
    /\ Goto(p, "handler")
    /\ Decided(p, TRUE)
    /\ Stage(p, "admit")
    /\ UNCHANGED <<Applied, Clock, started, REQUEST_CACHE, Counters, req, out, lastPut>>

\* line 80: RATE_LIMIT_CACHE[key] = 1
RlNew(p) ==
    /\ pc[p] = "rl_new"
    /\ RATE_LIMIT_CACHE' = SetItem(RATE_LIMIT_CACHE, Key(p), 1)
    /\ Goto(p, "rl_scan")
    /\ UNCHANGED <<Applied, Clock, started, REQUEST_CACHE, Counters, req, loc, out, stages,
                   Ghost>>

\* lines 82-83: the iteration over RATE_LIMIT_CACHE.keys() begins
RlScanBegin(p) ==
    /\ pc[p] = "rl_scan"
    /\ loc' = [loc EXCEPT ![p].tmp = Cardinality(DOMAIN RATE_LIMIT_CACHE)]
    /\ Goto(p, "rl_scan_end")
    /\ UNCHANGED <<Applied, Clock, started, RATE_LIMIT_CACHE, REQUEST_CACHE, Counters, req,
                   out, stages, Ghost>>

OldKeysInclusive(d, cur) == { k \in DOMAIN d : BucketOf(k) <= cur - CleanupAge }

\* the keys a cleanup at bucket cur removes
OldKeys(d, cur) == { k \in DOMAIN d : BucketOf(k) < cur - CleanupAge }

\* lines 82-83: the iteration ends; a dictionary whose size changed since it
\* began raises RuntimeError
RlScanEnd(p) ==
    /\ pc[p] = "rl_scan_end"
    /\ IF Cardinality(DOMAIN RATE_LIMIT_CACHE) # loc[p].tmp
       THEN Uncaught(p) /\ Decided(p, FALSE) /\ UNCHANGED loc
       ELSE /\ loc' = [loc EXCEPT ![p].rl_rm =
                          OldKeys(RATE_LIMIT_CACHE, req[p].current_time),
                                 ![p].tmp = 0]
            /\ Goto(p, "rl_del")
            /\ UNCHANGED <<out, calls, allowed>>
    /\ UNCHANGED <<Applied, Clock, started, RATE_LIMIT_CACHE, REQUEST_CACHE, Counters, req,
                   stages, lastPut>>

\* lines 84-85: del RATE_LIMIT_CACHE[old_key] for one key
RlDel(p) ==
    /\ pc[p] = "rl_del"
    /\ \E k \in loc[p].rl_rm :
          IF k \notin DOMAIN RATE_LIMIT_CACHE
          THEN /\ Uncaught(p)
               /\ Decided(p, FALSE)
               /\ UNCHANGED <<RATE_LIMIT_CACHE, loc>>
          ELSE /\ RATE_LIMIT_CACHE' = DelItem(RATE_LIMIT_CACHE, k)
               /\ loc' = [loc EXCEPT ![p].rl_rm = @ \ {k}]
               /\ UNCHANGED <<pc, out, calls, allowed>>
    /\ UNCHANGED <<Applied, Clock, started, REQUEST_CACHE, Counters, req, stages, lastPut>>

\* the loop of lines 84-85 is over; line 87
RlAdmit(p) ==
    /\ pc[p] = "rl_del"
    /\ loc[p].rl_rm = {}
    /\ Goto(p, "handler")
    /\ Decided(p, TRUE)
    /\ Stage(p, "admit")
    /\ UNCHANGED <<Applied, Clock, started, RATE_LIMIT_CACHE, REQUEST_CACHE, Counters, req,
                   loc, out, lastPut>>

(***************************************************************************)
(* generate_quiz, lines 373-389: content type, validation, prompt, hash.   *)
(***************************************************************************)
Handler(p) ==
    /\ pc[p] = "handler"
    /\ IF ~req[p].body.is_json
       THEN Respond(p, create_error_response("not_json", 400)) /\ UNCHANGED loc
       ELSE IF ~validate_request_data(req[p].body).ok
       THEN Respond(p, create_error_response("invalid", 400)) /\ UNCHANGED loc
       ELSE /\ loc' = [loc EXCEPT ![p].hash =
                          generate_prompt_hash(build_openai_prompt(req[p].body))]
            /\ Goto(p, "c_check")
            /\ UNCHANGED out
    /\ Stage(p, "validate")
    /\ UNCHANGED <<Applied, Clock, started, RATE_LIMIT_CACHE, REQUEST_CACHE, Counters, req,
                   Ghost>>

(***************************************************************************)
(* get_cached_response, lines 105-115, called at line 392.                 *)
(***************************************************************************)
\* line 107: if prompt_hash in REQUEST_CACHE (else return None)
CCheck(p) ==
    /\ pc[p] = "c_check"
    /\ Goto(p, IF loc[p].hash \in DOMAIN REQUEST_CACHE THEN "c_read" ELSE "call")
    /\ Stage(p, "lookup")
    /\ UNCHANGED <<Applied, Clock, started, RATE_LIMIT_CACHE, REQUEST_CACHE, Counters, req,
                   loc, out, Ghost>>

\* line 108: cached = REQUEST_CACHE[prompt_hash], a reference to the entry
CRead(p) ==
    /\ pc[p] = "c_read"
    /\ IF loc[p].hash \notin DOMAIN REQUEST_CACHE
       THEN Caught(p) /\ UNCHANGED loc
       ELSE /\ loc' = [loc EXCEPT ![p].cached = REQUEST_CACHE[loc[p].hash]]
            /\ Goto(p, "c_valid")
            /\ UNCHANGED out
    /\ UNCHANGED <<Applied, Clock, started, RATE_LIMIT_CACHE, REQUEST_CACHE, Counters, req,
                   stages, Ghost>>

StillValidReversed(t, ts) == t - ts > TTL

StillValidShortTtl(t, ts) == t - ts < BucketSeconds

\* the validity test of line 110 at time t for an entry created at ts
StillValid(t, ts) == t - ts < TTL

\* line 110: if time.time() - cached['timestamp'] < 3600
CValid(p) ==
    /\ pc[p] = "c_valid"
    /\ Goto(p, IF StillValid(now, loc[p].cached.timestamp) THEN "c_incr" ELSE "c_del")
    /\ UNCHANGED <<Applied, Clock, started, RATE_LIMIT_CACHE, REQUEST_CACHE, Counters, req,
                   loc, out, stages, Ghost>>

\* the entry object that p holds is still the one stored under its hash
Live(p) ==
    /\ loc[p].hash \in DOMAIN REQUEST_CACHE
    /\ REQUEST_CACHE[loc[p].hash].oid = loc[p].cached.oid

\* line 111, cached['usage_count'] += 1: the read
CIncrLoad(p) ==
    /\ pc[p] = "c_incr"
    /\ loc' = [loc EXCEPT ![p].tmp =
                  IF Live(p) THEN REQUEST_CACHE[loc[p].hash].usage_count
                  ELSE loc[p].cached.usage_count]
    /\ Goto(p, "c_hit")
    /\ UNCHANGED <<Applied, Clock, started, RATE_LIMIT_CACHE, REQUEST_CACHE, Counters, req,
                   out, stages, Ghost>>

\* the response returned for a cache hit: jsonify(cached_response), line 395
HitResponse(cached) ==
    [status |-> 200, kind |-> "hit", body |-> cached.response, error |-> {}]

\* line 111: the write; line 112: return cached['response']; lines 393-395
CHit(p) ==
    /\ pc[p] = "c_hit"
    /\ REQUEST_CACHE' =
          IF Live(p)
          THEN [REQUEST_CACHE EXCEPT ![loc[p].hash].usage_count = loc[p].tmp + 1]
          ELSE REQUEST_CACHE
    /\ Respond(p, HitResponse(loc[p].cached))
    /\ UNCHANGED <<Applied, Clock, started, RATE_LIMIT_CACHE, Counters, req, loc, stages,
                   Ghost>>

\* line 114: del REQUEST_CACHE[prompt_hash]; line 115: return None
CDel(p) ==
    /\ pc[p] = "c_del"
    /\ IF loc[p].hash \notin DOMAIN REQUEST_CACHE
       THEN Caught(p) /\ UNCHANGED <<REQUEST_CACHE, loc>>
       ELSE /\ REQUEST_CACHE' = DelItem(REQUEST_CACHE, loc[p].hash)
            /\ loc' = [loc EXCEPT ![p].expired = TRUE]
            /\ Goto(p, "call")
            /\ UNCHANGED out
    /\ UNCHANGED <<Applied, Clock, started, RATE_LIMIT_CACHE, Counters, req, stages, Ghost>>

(***************************************************************************)
(* call_openai_api, lines 213-268, and process_openai_response at 407.     *)
(***************************************************************************)
CallUncounted(p) ==
    /\ pc[p] = "call"
    /\ Goto(p, "ret")
    /\ Stage(p, "backend")
    /\ UNCHANGED <<Applied, Clock, started, RATE_LIMIT_CACHE, REQUEST_CACHE, Counters,
                   req, loc, out, Ghost>>

\* line 216: self.request_count += 1, then the request is sent
Call(p) ==
    /\ pc[p] = "call"
    /\ request_count' = request_count + 1
    /\ Goto(p, "ret")
    /\ Stage(p, "backend")
    /\ UNCHANGED <<Applied, Clock, started, RATE_LIMIT_CACHE, REQUEST_CACHE, error_count,
                   req, loc, out, Ghost>>

\* the backend raises: lines 234-268, then lines 400-404
BackendFail(p) ==
    /\ pc[p] = "ret"
    /\ error_count' = error_count + 1
    /\ \/ Respond(p, create_error_response("backend_rate_limit", 429))
       \/ Respond(p, create_error_response("backend_error", 500))
    /\ UNCHANGED <<Applied, Clock, started, RATE_LIMIT_CACHE, REQUEST_CACHE, request_count,
                   req, loc, stages, Ghost>>

\* lines 413-422: final_response (metadata.generated_at and metadata.usage,
\* which nothing reads, are left out)
FinalResponse(processed, h) ==
    [success |-> TRUE, data |-> processed.data, prompt_hash |-> h,
     from_cache |-> FALSE]

AcceptsAll(processed) == TRUE

\* what generate_quiz does with the processed response (lines 409-425):
\* TRUE when it goes on to cache it
Accepts(processed) == processed.success

\* the backend answers raw: lines 228-232, 407-422
BackendReturnFrom(p, A) ==
    /\ pc[p] = "ret"
    /\ \E raw \in A :
          LET processed == process_openai_response(raw)
          IN  IF Accepts(processed)
              THEN /\ loc' = [loc EXCEPT ![p].final =
                                 FinalResponse(processed, loc[p].hash)]
                   /\ Goto(p, "put")
                   /\ UNCHANGED out
              ELSE /\ Respond(p, create_error_response("parse_error", 500))
                   /\ UNCHANGED loc
    /\ Stage(p, "parse")
    /\ UNCHANGED <<Applied, Clock, started, RATE_LIMIT_CACHE, REQUEST_CACHE, Counters, req,
                   Ghost>>

(***************************************************************************)
(* cache_response, lines 90-103, called at line 425.                       *)
(***************************************************************************)
NewEntryUncounted(response, t, id) ==
    [response |-> response, timestamp |-> t, usage_count |-> 0, oid |-> id]

\* the entry of lines 92-96
NewEntry(response, t, id) ==
    [response |-> response, timestamp |-> t, usage_count |-> 1, oid |-> id]

\* the identities of the entry objects of hash h that are stored or that a
\* thread still holds a reference to
LiveOids(h) ==
    (IF h \in DOMAIN REQUEST_CACHE THEN {REQUEST_CACHE[h].oid} ELSE {})
    \cup { loc[q].cached.oid :
             q \in { r \in Threads : loc[r].hash = h /\ loc[r].cached.oid # 0 } }

\* the identity of a new entry object: one no reachable object has
NewOid(h) ==
    CHOOSE n \in 1..(Cardinality(Threads) + 2) :
        n \notin LiveOids(h) /\ \A m \in 1..(n - 1) : m \in LiveOids(h)

\* lines 92-96: REQUEST_CACHE[prompt_hash] = {...}
Put(p) ==
    /\ pc[p] = "put"
    /\ REQUEST_CACHE' =
          SetItem(REQUEST_CACHE, loc[p].hash, NewEntry(loc[p].final, now, NewOid(loc[p].hash)))
    /\ lastPut' = SetItem(lastPut, loc[p].hash, [value |-> loc[p].final, at |-> now])
    /\ Goto(p, "sweep")
    /\ Stage(p, "put")
    /\ UNCHANGED <<Applied, Clock, started, RATE_LIMIT_CACHE, Counters, req, loc, out, calls,
                   allowed>>

\* lines 99-101: current_time = time.time(); the iteration over
\* REQUEST_CACHE.items() begins
SweepBegin(p) ==
    /\ pc[p] = "sweep"
    /\ loc' = [loc EXCEPT ![p].sweep_time = now,
                          ![p].tmp = Cardinality(DOMAIN REQUEST_CACHE)]
    /\ Goto(p, "sweep_end")
    /\ UNCHANGED <<Applied, Clock, started, RATE_LIMIT_CACHE, REQUEST_CACHE, Counters, req,
                   out, stages, Ghost>>

StaleReversed(d, t) == { k \in DOMAIN d : t - d[k].timestamp < TTL }

StaleAfterADay(d, t) == { k \in DOMAIN d : t - d[k].timestamp > 24 * TTL }

\* the keys a sweep at time t removes
Stale(d, t) == { k \in DOMAIN d : t - d[k].timestamp > TTL }

\* lines 100-101: the iteration ends; a dictionary whose size changed since
\* it began raises RuntimeError
SweepEnd(p) ==
    /\ pc[p] = "sweep_end"
    /\ IF Cardinality(DOMAIN REQUEST_CACHE) # loc[p].tmp
       THEN Caught(p) /\ UNCHANGED loc
       ELSE /\ loc' = [loc EXCEPT ![p].c_rm = Stale(REQUEST_CACHE, loc[p].sweep_time),
                                 ![p].tmp = 0]
            /\ Goto(p, "sweep_del")
            /\ UNCHANGED out
    /\ UNCHANGED <<Applied, Clock, started, RATE_LIMIT_CACHE, REQUEST_CACHE, Counters, req,
                   stages, Ghost>>

\* lines 102-103: del REQUEST_CACHE[old_key] for one key
SweepDel(p) ==
    /\ pc[p] = "sweep_del"
    /\ \E k \in loc[p].c_rm :
          IF k \notin DOMAIN REQUEST_CACHE
          THEN Caught(p) /\ UNCHANGED <<REQUEST_CACHE, loc>>
          ELSE /\ REQUEST_CACHE' = DelItem(REQUEST_CACHE, k)
               /\ loc' = [loc EXCEPT ![p].c_rm = @ \ {k}]
               /\ UNCHANGED <<pc, out>>
    /\ UNCHANGED <<Applied, Clock, started, RATE_LIMIT_CACHE, Counters, req, stages, Ghost>>

\* the loop of lines 102-103 is over; line 428: return jsonify(final_response)
Fresh(p) ==
    /\ pc[p] = "sweep_del"
    /\ loc[p].c_rm = {}
    /\ Respond(p, [status |-> 200, kind |-> "fresh", body |-> loc[p].final,
                    error |-> {}])
    /\ UNCHANGED <<Applied, Clock, started, RATE_LIMIT_CACHE, REQUEST_CACHE, Counters, req,
                   loc, stages, Ghost>>

\* the response is sent and the thread takes the next request
Finish(p) ==
    /\ pc[p] = "done"
    /\ Goto(p, "idle")
    /\ req' = [req EXCEPT ![p] = NoReq]
    /\ loc' = [loc EXCEPT ![p] = NoLoc]
    /\ out' = [out EXCEPT ![p] = NoOut]
    /\ stages' = [stages EXCEPT ![p] = {}]
    /\ UNCHANGED <<Applied, Clock, started, RATE_LIMIT_CACHE, REQUEST_CACHE, Counters, Ghost>>

\* get_stats, lines 331-335: the counters it reports
get_stats ==
    [total_requests |-> request_count, total_errors |-> error_count,
     cache_size |-> Cardinality(DOMAIN REQUEST_CACHE)]

(***************************************************************************)
(* The specifications.  They run the same code and differ in the number   *)
(* of threads and in the inputs the requests are drawn from.              *)
(***************************************************************************)
\* one client, every body and every backend answer of the model
OneClient == {"10.0.0.1"}

Next ==
    \/ TickBy(Jumps)
    \/ \E p \in Threads : StartFrom(p, OneClient, RequestBodies)
    \/ \E p \in Threads : RlCheck(p)
    \/ \E p \in Threads : RlLimit(p)
    \/ \E p \in Threads : RlLoad(p)
    \/ \E p \in Threads : RlStore(p)
    \/ \E p \in Threads : RlNew(p)
    \/ \E p \in Threads : RlScanBegin(p)
    \/ \E p \in Threads : RlScanEnd(p)
    \/ \E p \in Threads : RlDel(p)
    \/ \E p \in Threads : RlAdmit(p)
    \/ \E p \in Threads : Handler(p)
    \/ \E p \in Threads : CCheck(p)
    \/ \E p \in Threads : CRead(p)
    \/ \E p \in Threads : CValid(p)
    \/ \E p \in Threads : CIncrLoad(p)
    \/ \E p \in Threads : CHit(p)
    \/ \E p \in Threads : CDel(p)
    \/ \E p \in Threads : Call(p)
    \/ \E p \in Threads : BackendFail(p)
    \/ \E p \in Threads : BackendReturnFrom(p, BackendAnswers)
    \/ \E p \in Threads : Put(p)
    \/ \E p \in Threads : SweepBegin(p)
    \/ \E p \in Threads : SweepEnd(p)
    \/ \E p \in Threads : SweepDel(p)
    \/ \E p \in Threads : Fresh(p)
    \/ \E p \in Threads : Finish(p)

\* sequential execution: one thread, one request at a time
Spec == Init /\ [][Next]_vars

\* the rate limiter's view: two clients, valid bodies, one backend answer,
\* and a clock that advances by the TTL
RateJumps == {TTL}

RateBodies ==
    { Body(TRUE, AllFields, <<"a">>, TRUE, 2, "english"),
      Body(TRUE, AllFields, <<"b">>, TRUE, 1, "italian") }

RateAnswers == { [text |-> Wrapped, doc |-> DocA] }

NextRate ==
    \/ TickBy(RateJumps)
    \/ \E p \in Threads : StartFrom(p, Clients, RateBodies)
    \/ \E p \in Threads : RlCheck(p)
    \/ \E p \in Threads : RlLimit(p)
    \/ \E p \in Threads : RlLoad(p)
    \/ \E p \in Threads : RlStore(p)
    \/ \E p \in Threads : RlNew(p)
    \/ \E p \in Threads : RlScanBegin(p)
    \/ \E p \in Threads : RlScanEnd(p)
    \/ \E p \in Threads : RlDel(p)
    \/ \E p \in Threads : RlAdmit(p)
    \/ \E p \in Threads : Handler(p)
    \/ \E p \in Threads : CCheck(p)
    \/ \E p \in Threads : CRead(p)
    \/ \E p \in Threads : CValid(p)
    \/ \E p \in Threads : CIncrLoad(p)
    \/ \E p \in Threads : CHit(p)
    \/ \E p \in Threads : CDel(p)
    \/ \E p \in Threads : Call(p)
    \/ \E p \in Threads : BackendFail(p)
    \/ \E p \in Threads : BackendReturnFrom(p, RateAnswers)
    \/ \E p \in Threads : Put(p)
    \/ \E p \in Threads : SweepBegin(p)
    \/ \E p \in Threads : SweepEnd(p)
    \/ \E p \in Threads : SweepDel(p)
    \/ \E p \in Threads : Fresh(p)
    \/ \E p \in Threads : Finish(p)

\* sequential execution with two clients
SpecRate == Init /\ [][NextRate]_vars

NextConc ==
    \/ TickBy(RateJumps)
    \/ \E p \in Threads : StartFrom(p, OneClient, RateBodies)
    \/ \E p \in Threads : RlCheck(p)
    \/ \E p \in Threads : RlLimit(p)
    \/ \E p \in Threads : RlLoad(p)
    \/ \E p \in Threads : RlStore(p)
    \/ \E p \in Threads : RlNew(p)
    \/ \E p \in Threads : RlScanBegin(p)
    \/ \E p \in Threads : RlScanEnd(p)
    \/ \E p \in Threads : RlDel(p)
    \/ \E p \in Threads : RlAdmit(p)
    \/ \E p \in Threads : Handler(p)
    \/ \E p \in Threads : CCheck(p)
    \/ \E p \in Threads : CRead(p)
    \/ \E p \in Threads : CValid(p)
    \/ \E p \in Threads : CIncrLoad(p)
    \/ \E p \in Threads : CHit(p)
    \/ \E p \in Threads : CDel(p)
    \/ \E p \in Threads : Call(p)
    \/ \E p \in Threads : BackendFail(p)
    \/ \E p \in Threads : BackendReturnFrom(p, RateAnswers)
    \/ \E p \in Threads : Put(p)
    \/ \E p \in Threads : SweepBegin(p)
    \/ \E p \in Threads : SweepEnd(p)
    \/ \E p \in Threads : SweepDel(p)
    \/ \E p \in Threads : Fresh(p)
    \/ \E p \in Threads : Finish(p)

\* concurrent execution: two threads, every interleaving of their steps
SpecConc == InitConc /\ [][NextConc]_vars

\* the rate limiter's cleanup: two clients, requests that end at validation,
\* and a clock that advances by one bucket or by the cleanup age, so that
\* counters older than, equal to and younger than the cleanup age occur
CleanJumps == {BucketSeconds, CleanupAge * BucketSeconds}

CleanBodies == { Body(TRUE, AllFields, <<>>, TRUE, 2, "english") }

NextClean ==
    \/ TickBy(CleanJumps)
    \/ \E p \in Threads : StartFrom(p, Clients, CleanBodies)
    \/ \E p \in Threads : RlCheck(p)
    \/ \E p \in Threads : RlLimit(p)
    \/ \E p \in Threads : RlLoad(p)
    \/ \E p \in Threads : RlStore(p)
    \/ \E p \in Threads : RlNew(p)
    \/ \E p \in Threads : RlScanBegin(p)
    \/ \E p \in Threads : RlScanEnd(p)
    \/ \E p \in Threads : RlDel(p)
    \/ \E p \in Threads : RlAdmit(p)
    \/ \E p \in Threads : Handler(p)
    \/ \E p \in Threads : Finish(p)

SpecClean == Init /\ [][NextClean]_vars

(***************************************************************************)
(* Properties.                                                             *)
(***************************************************************************)
\* the last put of hash h is younger than the TTL at time t
FreshPut(h, t) == h \in DOMAIN lastPut /\ t - lastPut[h].at < TTL

\* thread p takes a step
Steps(p) == pc'[p] # pc[p]

\* C1: sequentially, for every client and minute bucket the first
\* MAX_REQUESTS_PER_MINUTE admit calls are allowed and every later call of
\* that bucket is rejected, and no counter exceeds the ceiling.
C1_AdmissionBound ==
    /\ \A k \in DOMAIN RATE_LIMIT_CACHE :
          RATE_LIMIT_CACHE[k] <= MAX_REQUESTS_PER_MINUTE
    /\ \A k \in DOMAIN calls :
          Count(allowed, k) = Min(calls[k], MAX_REQUESTS_PER_MINUTE)
    /\ \A p \in Threads :
          pc[p] = "done" /\ out[p].kind = "rate_limited" =>
              /\ out[p].status = 429
              /\ Count(allowed, Key(p)) = MAX_REQUESTS_PER_MINUTE

\* a call beyond the ceiling was rejected and the counter stands at the
\* ceiling
C1_Witness ==
    \E p \in Threads :
        /\ pc[p] = "done"
        /\ out[p].kind = "rate_limited"
        /\ calls[Key(p)] = MAX_REQUESTS_PER_MINUTE + 1
        /\ RATE_LIMIT_CACHE[Key(p)] = MAX_REQUESTS_PER_MINUTE

\* C2: a get of key k after a put of (k, v) and before the TTL has elapsed
\* since that put returns exactly v, whatever puts and gets of other keys
\* happened in between: while the put is younger than the TTL the entry is
\* stored unchanged, a get never reports it absent, and a hit returns v.
C2_RoundTrip ==
    /\ \A h \in DOMAIN lastPut :
          FreshPut(h, now) =>
              /\ h \in DOMAIN REQUEST_CACHE
              /\ REQUEST_CACHE[h].response = lastPut[h].value
              /\ REQUEST_CACHE[h].timestamp = lastPut[h].at
    /\ \A p \in Threads :
          /\ pc[p] \in {"c_valid", "c_incr", "c_hit"} =>
                loc[p].cached.response = lastPut[loc[p].hash].value
          /\ pc[p] = "call" => ~FreshPut(loc[p].hash, now)
          /\ pc[p] = "done" /\ out[p].kind = "hit" =>
                out[p].body = lastPut[loc[p].hash].value

\* a hit on a key while the other key was put after it
C2_Witness ==
    \E p \in Threads :
        /\ pc[p] = "done"
        /\ out[p].kind = "hit"
        /\ \E h \in DOMAIN lastPut :
              h # loc[p].hash /\ lastPut[h].at > lastPut[loc[p].hash].at

\* C3: a get issued when now - createdAt > TTL deletes the entry and returns
\* absent: the cache no longer holds the key and the request goes on as a
\* miss.
C3_Expiry ==
    [][\A p \in Threads :
          /\ (/\ pc[p] = "c_valid"
              /\ Steps(p)
              /\ now - loc[p].cached.timestamp > TTL) => pc'[p] = "c_del"
          /\ (pc[p] = "c_del" /\ Steps(p)) =>
                /\ pc'[p] = "call"
                /\ loc[p].hash \notin DOMAIN REQUEST_CACHE'
                /\ out'[p] = NoOut]_vars

\* a get found its entry older than the TTL, deleted it and reported a miss
C3_Witness ==
    \E p \in Threads :
        /\ pc[p] = "call"
        /\ loc[p].expired
        /\ now - lastPut[loc[p].hash].at > TTL
        /\ loc[p].hash \notin DOMAIN REQUEST_CACHE

\* C4: sequentially, a request identical to an earlier successful one whose
\* cache lookup happens within the TTL of that one is answered from the cache
\* with the same quiz data and without a backend call: the backend is never
\* called for a key while the last put of that key is younger than the TTL.
C4_SingleBackendCall ==
    [][\A p \in Threads :
          /\ (pc[p] = "c_check" /\ Steps(p) /\ FreshPut(loc[p].hash, now)) =>
                pc'[p] = "c_read"
          /\ (pc[p] = "c_valid" /\ Steps(p) /\ FreshPut(loc[p].hash, now)) =>
                pc'[p] = "c_incr"
          /\ (pc[p] = "c_hit" /\ Steps(p)) =>
                /\ out'[p].status = 200
                /\ out'[p].body.data = lastPut[loc[p].hash].value.data
                /\ request_count' = request_count
          /\ (pc[p] = "call" /\ Steps(p)) => ~FreshPut(loc[p].hash, now)]_vars

\* the second request of a key was answered from the cache, some time after
\* the first, with a single backend call made so far
C4_Witness ==
    \E p \in Threads :
        /\ pc[p] = "done"
        /\ out[p].kind = "hit"
        /\ request_count = 1
        /\ now > lastPut[loc[p].hash].at

\* C5: every response served from the cache is tagged from_cache = TRUE and
\* every freshly generated response is tagged from_cache = FALSE.
C5_FromCacheTag ==
    \A p \in Threads :
        pc[p] = "done" =>
            /\ out[p].kind = "hit" => out[p].body.from_cache = TRUE
            /\ out[p].kind = "fresh" => out[p].body.from_cache = FALSE

SuccessfulParses ==
    { process_openai_response(raw).data :
        raw \in { r \in RawResponses : process_openai_response(r).success } }

\* C7: a cache entry is created only after a successful parse: a request
\* that ends with a backend failure or a parse failure leaves the cache
\* unchanged, and every cached value is a successfully parsed result.
C7_CacheOnlyParsed ==
    /\ [](\A h \in DOMAIN REQUEST_CACHE :
             REQUEST_CACHE[h].response.data \in SuccessfulParses)
    /\ [][\A p \in Threads :
             (pc[p] = "ret" /\ Steps(p)) =>
                 /\ REQUEST_CACHE' = REQUEST_CACHE
                 /\ pc'[p] = "put" =>
                       loc'[p].final.data \in SuccessfulParses]_vars

\* a request ended with a parse failure while the cache holds an entry
C7_Witness ==
    \E p \in Threads :
        /\ pc[p] = "done"
        /\ out[p].kind = "parse_error"
        /\ REQUEST_CACHE # <<>>

\* the cross-field rule of a parsed quiz: the correct letter is a key of the
\* options and there are at least two options
CrossFieldOk(doc) ==
    \A i \in 1..Len(doc.questionario) :
        /\ doc.questionario[i].risposta_corretta \in doc.questionario[i].risposte
        /\ Cardinality(doc.questionario[i].risposte) >= 2

\* C8: every result the parser returns with success, and so every cached
\* value, has for each question a correct letter that is a key of the options
\* and at least two options.
C8_CrossFieldRule ==
    \A h \in DOMAIN REQUEST_CACHE : CrossFieldOk(REQUEST_CACHE[h].response.data)

\* C9: under every interleaving the number of calls allowed for a client in
\* a minute bucket never exceeds the ceiling.
C9_ConcurrentAdmissionBound ==
    \A k \in DOMAIN allowed : allowed[k] <= MAX_REQUESTS_PER_MINUTE

\* C10: under every interleaving no request fails because another request
\* changed a shared map: every request ends with its normal outcome.
C10_NoInterference == \A p \in Threads : out[p].kind # "crash"

\* C11: a request the rate limiter rejects is answered with an error object
\* that carries retryAfterSeconds, the seconds left until the next minute
\* boundary
C11_RetryAfter ==
    \A p \in Threads :
        pc[p] = "done" /\ out[p].kind = "rate_limited" =>
            "retryAfterSeconds" \in out[p].error

\* C12: a step removes an entry from the cache only when the age of the
\* entry exceeds the TTL
C12_TtlOnlyEviction ==
    [][\A h \in DOMAIN REQUEST_CACHE :
          h \notin DOMAIN REQUEST_CACHE' =>
              now - REQUEST_CACHE[h].timestamp > TTL]_vars

\* the call of cache_response by thread p is over: the sweep loop of lines
\* 102-103 has no key left, or the response built from it is being sent
AfterPut(p) ==
    \/ pc[p] = "sweep_del" /\ loc[p].c_rm = {}
    \/ pc[p] = "done" /\ out[p].kind = "fresh"

\* C13: when a put made at time t is over, no entry of the cache, under any
\* key, is older than the TTL at time t
C13_SweepRemovesExpired ==
    \A p \in Threads :
        AfterPut(p) =>
            \A h \in DOMAIN REQUEST_CACHE :
                loc[p].sweep_time - REQUEST_CACHE[h].timestamp <= TTL

\* a put is over whose sweep removed the expired entry of another key
C13_Witness ==
    \E p \in Threads :
        /\ AfterPut(p)
        /\ loc[p].hash \in DOMAIN REQUEST_CACHE
        /\ \E h \in DOMAIN lastPut :
              /\ h # loc[p].hash
              /\ h \notin DOMAIN REQUEST_CACHE
              /\ loc[p].sweep_time - lastPut[h].at > TTL

\* C22: an admit call that creates a new counter for bucket b stores it with
\* count 1 and returns with no counter, of any client, older than b - 5 left;
\* a counter is deleted only by such a call and only when its bucket is
\* older than b - 5, so no counter of the last 5 minutes is deleted
C22_Cleanup ==
    [][/\ \A p \in Threads :
             /\ (pc[p] = "rl_new" /\ Steps(p)) =>
                   /\ pc'[p] = "rl_scan"
                   /\ RATE_LIMIT_CACHE' = SetItem(RATE_LIMIT_CACHE, Key(p), 1)
             /\ (pc[p] \in {"rl_scan", "rl_scan_end", "rl_del"} /\ Steps(p)) =>
                   pc'[p] \in {"rl_scan_end", "rl_del", "handler"}
             /\ (pc[p] = "rl_del" /\ pc'[p] = "handler") =>
                   \A k \in DOMAIN RATE_LIMIT_CACHE' :
                       BucketOf(k) >= req[p].current_time - 5
       /\ \A k \in DOMAIN RATE_LIMIT_CACHE :
             k \notin DOMAIN RATE_LIMIT_CACHE' =>
                 \E p \in Threads :
                     /\ pc[p] = "rl_del"
                     /\ BucketOf(k) < req[p].current_time - 5]_vars

\* a call that created a counter is admitted: the counter of another client
\* that was more than 5 buckets old is gone and a counter exactly 5 buckets
\* old is still there
C22_Witness ==
    \E p \in Threads :
        /\ pc[p] = "handler"
        /\ RATE_LIMIT_CACHE[Key(p)] = 1
        /\ \E k \in DOMAIN RATE_LIMIT_CACHE :
              BucketOf(k) = req[p].current_time - 5
        /\ \E k \in DOMAIN calls :
              /\ k[1] # req[p].client
              /\ k \notin DOMAIN RATE_LIMIT_CACHE
              /\ BucketOf(k) < req[p].current_time - 5

\* thread p returns a cache hit for key h in this step
HitOn(p, h) == pc[p] = "c_hit" /\ Steps(p) /\ loc[p].hash = h

\* thread p stores an entry under key h in this step
PutOn(p, h) == pc[p] = "put" /\ Steps(p) /\ loc[p].hash = h

EndedEarly == {"not_json", "invalid", "rate_limited", "hit"}

\* the outcomes of a request whose backend call failed
BackendFailed == {"backend_rate_limit", "backend_error"}

\* C25: total_errors is between 0 and total_requests; total_requests grows
\* by 1 in the step that calls the backend and in no other step, so by 0
\* for a request ended by a validation failure, a rate-limit rejection or a
\* cache hit; total_errors grows by 1 in the step in which a backend call
\* fails and in no other step
C25_StatsCounters ==
    /\ [](/\ 0 <= get_stats.total_errors
          /\ get_stats.total_errors <= get_stats.total_requests
          /\ \A p \in Threads :
                pc[p] = "done" /\ out[p].kind \in EndedEarly =>
                    "backend" \notin stages[p])
    /\ [][/\ get_stats.total_requests' =
                get_stats.total_requests
                + Cardinality({ p \in Threads : pc[p] = "call" /\ Steps(p) })
          /\ get_stats.total_errors' =
                get_stats.total_errors
                + Cardinality({ p \in Threads :
                                  /\ pc[p] = "ret"
                                  /\ pc'[p] = "done"
                                  /\ out'[p].kind \in BackendFailed })
          /\ \A p \in Threads :
                (pc'[p] = "done" /\ Steps(p) /\ out'[p].kind \in EndedEarly) =>
                    /\ get_stats.total_requests' = get_stats.total_requests
                    /\ get_stats.total_errors' = get_stats.total_errors]_vars

\* after one backend call that succeeded and one that failed, a request
\* ended without a backend call
C25_Witness ==
    \E p \in Threads :
        /\ pc[p] = "done"
        /\ out[p].kind \in EndedEarly
        /\ get_stats.total_requests = 2
        /\ get_stats.total_errors = 1
        /\ get_stats.cache_size = 1

(***************************************************************************)
(* The utility modules: the validators of src/utils/validation.py, the     *)
(* prompt of src/app.py and the formatter of src/utils/text_processing.py. *)
(* A text is a sequence of characters; a value that may be a text, a       *)
(* number or None carries its type, as a Python object does.               *)
(***************************************************************************)
\* the longest topic among the enumerated topics
MaxTopicLen == 4

\* InputValidator.MAX_TOPIC_LENGTH, MIN_QUESTIONS and MAX_QUESTIONS
MAX_TOPIC_LENGTH == 200
MIN_QUESTIONS == 1
MAX_QUESTIONS == 50

Str(s) == [type |-> "str", str |-> s]
Num(n) == [type |-> "int", int |-> n]
None == [type |-> "NoneType"]

\* bool(v), the test of `if v` and `not v`
Truthy(v) ==
    CASE v.type = "str" -> v.str # <<>>
      [] v.type = "int" -> v.int # 0
      [] OTHER -> FALSE

\* a == b of two values: values of different types are unequal
PyEq(a, b) == a.type = b.type /\ a = b

Digits == <<"0", "1", "2", "3", "4", "5", "6", "7", "8", "9">>

\* the ASCII letters
Letters ==
    [upper |-> <<"A", "B", "C", "D", "E", "F", "G", "H", "I", "J", "K", "L", "M", "N", "O", "P", "Q", "R", "S", "T", "U", "V", "W", "X", "Y", "Z">>,
     lower |-> <<"a", "b", "c", "d", "e", "f", "g", "h", "i", "j", "k", "l", "m", "n", "o", "p", "q", "r", "s", "t", "u", "v", "w", "x", "y", "z">>]

\* str.lower()
Lower(s) ==
    [i \in 1..Len(s) |->
        IF \E k \in 1..Len(Letters.upper) : Letters.upper[k] = s[i]
        THEN Letters.lower[CHOOSE k \in 1..Len(Letters.upper) : Letters.upper[k] = s[i]]
        ELSE s[i]]

\* int(v): of a number the number, of a text the decimal numeral it holds
\* between optional blanks and after an optional sign; ValueError or
\* TypeError (ok = FALSE) otherwise
ParseInt(v) ==
    LET t == IF v.type = "str" THEN Strip(v.str) ELSE <<>>
        signed == t # <<>> /\ Head(t) \in {"-", "+"}
        body == IF signed THEN Tail(t) ELSE t
        digit(c) == (CHOOSE k \in 1..Len(Digits) : Digits[k] = c) - 1
        value[n \in 0..Len(body)] ==
            IF n = 0 THEN 0 ELSE 10 * value[n - 1] + digit(body[n])
        numeral == body # <<>> /\ \A i \in 1..Len(body) :
                                    \E k \in 1..Len(Digits) : Digits[k] = body[i]
    IN  CASE v.type = "int" -> [ok |-> TRUE, val |-> v.int]
          [] v.type = "str" /\ numeral ->
                [ok |-> TRUE,
                 val |-> IF Head(t) = "-" THEN 0 - value[Len(body)]
                         ELSE value[Len(body)]]
          [] OTHER -> [ok |-> FALSE, val |-> 0]

\* str(n) of a natural number
RECURSIVE DecimalText(_)
DecimalText(n) ==
    IF n < 10 THEN <<Digits[n + 1]>>
    ELSE DecimalText(n \div 10) \o <<Digits[(n % 10) + 1]>>

\* the text an f-string puts in place of {v}
Format(v) ==
    CASE v.type = "str" -> v.str
      [] v.type = "int" ->
            IF v.int < 0 THEN <<"-">> \o DecimalText(0 - v.int)
            ELSE DecimalText(v.int)
      [] OTHER -> <<"N", "o", "n", "e">>

\* the literal lit occurs in s at position i
MatchAt(s, i, lit) ==
    i + Len(lit) - 1 <= Len(s) /\ SubSeq(s, i, i + Len(lit) - 1) = lit

\* lit in s
Contains(s, lit) == \E i \in 1..Len(s) : MatchAt(s, i, lit)

\* the characters of the names the model uses for languages
Chars(name) ==
    CASE name = "italian" -> <<"i", "t", "a", "l", "i", "a", "n">>
      [] name = "english" -> <<"e", "n", "g", "l", "i", "s", "h">>
      [] name = "french" -> <<"f", "r", "e", "n", "c", "h">>
      [] name = "spanish" -> <<"s", "p", "a", "n", "i", "s", "h">>
      [] name = "german" -> <<"g", "e", "r", "m", "a", "n">>
      [] name = "portuguese" -> <<"p", "o", "r", "t", "u", "g", "u", "e", "s", "e">>
      [] name = "English" -> <<"E", "n", "g", "l", "i", "s", "h">>
      [] name = "GERMAN" -> <<"G", "E", "R", "M", "A", "N">>
      [] name = "klingon" -> <<"k", "l", "i", "n", "g", "o", "n">>
      [] name = "" -> <<>>

(***************************************************************************)
(* InputValidator, src/utils/validation.py.                                *)
(***************************************************************************)
SUPPORTED_LANGUAGES ==
    { <<"i", "t", "a", "l", "i", "a", "n">>,
      <<"e", "n", "g", "l", "i", "s", "h">>,
      <<"f", "r", "e", "n", "c", "h">>,
      <<"s", "p", "a", "n", "i", "s", "h">>,
      <<"g", "e", "r", "m", "a", "n">>,
      <<"p", "o", "r", "t", "u", "g", "u", "e", "s", "e">> }

SUPPORTED_DIFFICULTIES ==
    { <<"b", "e", "g", "i", "n", "n", "e", "r">>,
      <<"i", "n", "t", "e", "r", "m", "e", "d", "i", "a", "t", "e">>,
      <<"a", "d", "v", "a", "n", "c", "e", "d">>,
      <<"e", "x", "p", "e", "r", "t">> }

\* where the match of a pattern of _sanitize_text that begins at position i
\* of s ends, 0 when there is none there.  "script" is
\* <script.*?</script> with IGNORECASE and DOTALL, "tag" is <.*?> (the dot
\* matches no newline), "javascript" is javascript: with IGNORECASE
MatchEnd(pat, s, i) ==
    LET open == <<"<", "s", "c", "r", "i", "p", "t">>
        close == <<"<", "/", "s", "c", "r", "i", "p", "t", ">">>
        scheme == <<"j", "a", "v", "a", "s", "c", "r", "i", "p", "t", ":">>
        l == Lower(s)
        closes == { j \in (i + Len(open))..Len(s) : MatchAt(l, j, close) }
        ends == { j \in (i + 1)..Len(s) :
                    s[j] = ">" /\ \A k \in (i + 1)..(j - 1) : s[k] # "\n" }
    IN  CASE pat = "script" ->
               IF MatchAt(l, i, open) /\ closes # {}
               THEN (CHOOSE j \in closes : \A k \in closes : j <= k)
                    + Len(close) - 1
               ELSE 0
          [] pat = "tag" ->
               IF s[i] = "<" /\ ends # {}
               THEN CHOOSE j \in ends : \A k \in ends : j <= k
               ELSE 0
          [] pat = "javascript" ->
               IF MatchAt(l, i, scheme) THEN i + Len(scheme) - 1 ELSE 0

\* re.sub(pat, '', s) from position i on: the matches are taken from left
\* to right, each match is dropped and the search resumes after it
RECURSIVE re_sub(_, _, _)
re_sub(pat, s, i) ==
    LET starts == { j \in i..Len(s) : MatchEnd(pat, s, j) # 0 }
        first == CHOOSE j \in starts : \A k \in starts : j <= k
    IN  IF starts = {} THEN SubSeq(s, i, Len(s))
        ELSE SubSeq(s, i, first - 1) \o re_sub(pat, s, MatchEnd(pat, s, first) + 1)

\* re.sub(r'\s+', ' ', s): each run of whitespace becomes one blank
RECURSIVE Collapse(_)
Collapse(s) ==
    LET blanks == { j \in 1..Len(s) : s[j] \in Whitespace }
        first == CHOOSE j \in blanks : \A k \in blanks : j <= k
    IN  IF blanks = {} THEN s
        ELSE SubSeq(s, 1, first - 1) \o <<" ">>
             \o Collapse(LStrip(SubSeq(s, first, Len(s))))

_sanitize_text(text) ==
    IF text = <<>> THEN <<>>
    ELSE Strip(Collapse(
             re_sub("javascript", re_sub("tag", re_sub("script", text, 1), 1), 1)))

_contains_harmful_content(text) ==
    LET harmful_terms ==
            { <<"s", "c", "r", "i", "p", "t">>, <<"e", "v", "a", "l">>,
              <<"d", "o", "c", "u", "m", "e", "n", "t", ".">>,
              <<"w", "i", "n", "d", "o", "w", ".">>,
              <<"a", "l", "e", "r", "t", "(">>, <<"p", "r", "o", "m", "p", "t", "(">>,
              <<"c", "o", "n", "f", "i", "r", "m", "(">>,
              <<"o", "n", "c", "l", "i", "c", "k">>,
              <<"o", "n", "e", "r", "r", "o", "r">>,
              <<"o", "n", "l", "o", "a", "d">> }
    IN  text # <<>> /\ \E term \in harmful_terms : Contains(Lower(text), term)

validate_topic(topic) ==
    IF ~Truthy(topic)
    THEN [valid |-> FALSE, errors |-> <<"Topic cannot be empty">>]
    ELSE IF topic.type # "str"
    THEN [valid |-> FALSE, errors |-> <<"Topic must be a string">>]
    ELSE LET t == Strip(topic.str)
             errors ==
                 (IF Len(t) < 3
                  THEN <<"Topic must be at least 3 characters long">> ELSE <<>>)
                 \o (IF Len(t) > MAX_TOPIC_LENGTH
                     THEN <<"Topic cannot exceed 200 characters">> ELSE <<>>)
                 \o (IF _contains_harmful_content(t)
                     THEN <<"Topic contains inappropriate content">> ELSE <<>>)
         IN  [valid |-> errors = <<>>, errors |-> errors,
              sanitized_value |-> Str(_sanitize_text(t))]

validate_difficulty(difficulty) ==
    IF ~Truthy(difficulty)
    THEN [valid |-> FALSE, errors |-> <<"Difficulty cannot be empty">>]
    ELSE IF difficulty.type # "str"
    THEN [valid |-> FALSE, errors |-> <<"Difficulty must be a string">>]
    ELSE LET difficulty_lower == Strip(Lower(difficulty.str))
             errors == IF difficulty_lower \notin SUPPORTED_DIFFICULTIES
                       THEN <<"Difficulty must be one of">> ELSE <<>>
         IN  [valid |-> errors = <<>>, errors |-> errors,
              sanitized_value |-> Str(difficulty_lower)]

validate_language(language) ==
    IF ~Truthy(language)
    THEN [valid |-> FALSE, errors |-> <<"Language cannot be empty">>]
    ELSE IF language.type # "str"
    THEN [valid |-> FALSE, errors |-> <<"Language must be a string">>]
    ELSE LET language_lower == Strip(Lower(language.str))
             errors == IF language_lower \notin SUPPORTED_LANGUAGES
                       THEN <<"Language must be one of">> ELSE <<>>
         IN  [valid |-> errors = <<>>, errors |-> errors,
              sanitized_value |-> Str(language_lower)]

validate_questions_count(questions) ==
    IF ~ParseInt(questions).ok
    THEN [valid |-> FALSE, errors |-> <<"Questions count must be a valid number">>]
    ELSE LET questions_int == ParseInt(questions).val
             errors ==
                 (IF questions_int < MIN_QUESTIONS
                  THEN <<"Must have at least 1 question">> ELSE <<>>)
                 \o (IF questions_int > MAX_QUESTIONS
                     THEN <<"Cannot exceed 50 questions">> ELSE <<>>)
         IN  [valid |-> errors = <<>>, errors |-> errors,
              sanitized_value |-> Num(questions_int)]

\* the validator validate_api_request applies to a field (lines 162-167)
validator(field, value) ==
    CASE field = "topic" -> validate_topic(value)
      [] field = "difficulty" -> validate_difficulty(value)
      [] field = "language" -> validate_language(value)
      [] field = "questions" -> validate_questions_count(value)

\* a request is a function from the keys it has to their values
validate_api_request(request_data) ==
    LET required_fields == <<"topic", "difficulty", "questions", "language">>
        validations == <<"topic", "difficulty", "language", "questions">>
        absent(f) == f \notin DOMAIN request_data
        missing == SelectSeq(required_fields, absent)
        message(f) ==
            CASE f = "topic" -> "Missing required field: topic"
              [] f = "difficulty" -> "Missing required field: difficulty"
              [] f = "questions" -> "Missing required field: questions"
              [] f = "language" -> "Missing required field: language"
        field_result(f) == validator(f, request_data[f])
        errors_of(f) ==
            IF field_result(f).valid THEN <<>> ELSE field_result(f).errors
        passed == { f \in DOMAIN request_data \cap {"topic", "difficulty", "language",
                                                    "questions"} :
                      field_result(f).valid }
        optional == DOMAIN request_data \cap {"includeExplanations"}
        errors == errors_of(validations[1]) \o errors_of(validations[2])
                  \o errors_of(validations[3]) \o errors_of(validations[4])
    IN  IF missing # <<>>
        THEN [valid |-> FALSE,
              errors |-> [i \in 1..Len(missing) |-> message(missing[i])],
              sanitized_data |-> <<>>]
        ELSE [valid |-> errors = <<>>, errors |-> errors,
              sanitized_data |->
                  [f \in passed \cup optional |->
                      IF f \in passed THEN field_result(f).sanitized_value
                      ELSE Truthy(request_data[f])]]

\* SecurityValidator.validate_file_upload(filename)
validate_file_upload(filename) ==
    IF ~Truthy(filename)
    THEN [valid |-> FALSE, errors |-> <<"Filename cannot be empty">>]
    ELSE LET name == filename.str
             allowed_extensions ==
                 { <<".", "t", "x", "t">>, <<".", "m", "d">>,
                   <<".", "j", "s", "o", "n">>, <<".", "c", "s", "v">> }
             file_ext ==
                 IF RFind(name, ".") >= 0
                 THEN <<".">> \o Lower(Slice(name, RFind(name, ".") + 1, Len(name)))
                 ELSE <<>>
             word(c) == \/ \E k \in 1..Len(Digits) : Digits[k] = c
                        \/ \E k \in 1..Len(Letters.upper) :
                               c \in {Letters.upper[k], Letters.lower[k]}
                        \/ c = "_"
             kept(c) == word(c) \/ c \in {"-", "_", "."}
             safe_filename == SelectSeq(name, kept)
             type_errors == IF file_ext \notin allowed_extensions
                            THEN <<"File type not allowed">> ELSE <<>>
         IN  IF safe_filename # name
             THEN [valid |-> type_errors = <<>>,
                   errors |-> type_errors
                              \o <<"Filename contains invalid characters">>,
                   sanitized_filename |-> Str(safe_filename)]
             ELSE [valid |-> type_errors = <<>>, errors |-> type_errors]

(***************************************************************************)
(* QuizGenerator._build_prompt, src/app.py, and                            *)
(* ContentFormatter.format_question_count, src/utils/text_processing.py.   *)
(***************************************************************************)
\* the prompt is the fixed template with these four texts in it
_build_prompt(topic, random_topic, num_questions, num_replies, language) ==
    [questions_text |->
         IF PyEq(num_questions, Str(<<"1">>)) THEN <<"one question">>
         ELSE Format(num_questions) \o <<" questions, each">>,
     num_replies |-> Format(num_replies),
     language |-> Format(language),
     topic |-> IF PyEq(random_topic, Str(<<"t", "r", "u", "e">>))
               THEN <<"a random educational topic chosen by ChatGPT">>
               ELSE Format(topic)]

format_question_count(count) ==
    IF PyEq(count, Num(1)) THEN <<"1 domanda">>
    ELSE Format(count) \o <<" domande">>

(***************************************************************************)
(* QuizGenerator.generate_content and _validate_parameters, src/app.py.    *)
(***************************************************************************)
\* the limits and languages of src/config.py, lines 42-52
config ==
    [MAX_QUESTIONS |-> 50, MAX_ANSWERS |-> 10,
     SUPPORTED_LANGUAGES |->
         { Chars(n) : n \in {"italian", "english", "french", "spanish"} }]

\* params.get(key, default)
Get(params, key, default) == IF key \in DOMAIN params THEN params[key] ELSE default

\* the exception int(v) raises when v is no number
IntError(v) == IF v.type = "str" THEN "ValueError" ELSE "TypeError"

\* _validate_parameters: the exception it raises, "" when it returns
_validate_parameters(params) ==
    LET q == Get(params, "num_of_questions", Num(0))
        r == Get(params, "num_of_replies", Num(0))
        num_questions == ParseInt(q).val
        num_replies == ParseInt(r).val
        language == Get(params, "language", Str(<<>>))
    IN  IF ~ParseInt(q).ok THEN IntError(q)
        ELSE IF ~ParseInt(r).ok THEN IntError(r)
        ELSE IF num_questions < 1 \/ num_questions > config.MAX_QUESTIONS
        THEN "ValueError"
        ELSE IF num_replies < 2 \/ num_replies > config.MAX_ANSWERS
        THEN "ValueError"
        ELSE IF ~(language.type = "str" /\ language.str \in config.SUPPORTED_LANGUAGES)
        THEN "ValueError"
        ELSE ""

\* generate_content: the exception it raises ("" when it returns) and the
\* type of what it returns.  An exception of _validate_parameters is logged
\* and raised again (lines 83-85); after the validation the image helper
\* always returns, and the backend (lines 68-81) either gives a dict or
\* raises
generate_content(params, backend) ==
    LET e == _validate_parameters(params)
    IN  IF e # "" THEN [exception |-> e, result |-> "none"]
        ELSE IF backend = "raises" THEN [exception |-> "Exception", result |-> "none"]
        ELSE [exception |-> "", result |-> "dict"]

(***************************************************************************)
(* ResponseParser, src/utils/ai_helpers.py, and                            *)
(* QuizValidator.validate_question_structure, src/utils/validation.py.     *)
(* A JSON object is a function from its keys to their values; a list and   *)
(* a question carry their type as the other values do.                     *)
(***************************************************************************)
List(s) == [type |-> "list", list |-> s]
Dict(f) == [type |-> "dict", dict |-> f]

\* InputValidator.MIN_ANSWERS_PER_QUESTION and MAX_ANSWERS_PER_QUESTION
MIN_ANSWERS_PER_QUESTION == 2
MAX_ANSWERS_PER_QUESTION == 10

\* len(v) of a list or a text
PyLen(v) == IF v.type = "list" THEN Len(v.list) ELSE Len(v.str)

\* ResponseParser._validate_quiz_structure
_validate_quiz_structure(data) ==
    IF "quiz" \notin DOMAIN data THEN FALSE
    ELSE LET quiz == data.quiz
             accepted(question) ==
                 /\ question.type = "dict"
                 /\ {"question", "options", "correct"} \subseteq DOMAIN question.dict
                 /\ ~(question.dict.options.type # "list"
                      \/ Len(question.dict.options.list) < 2)
                 /\ ~(question.dict.correct.type # "int"
                      \/ question.dict.correct.int >= Len(question.dict.options.list))
         IN  IF "questions" \notin DOMAIN quiz \/ quiz.questions.type # "list"
             THEN FALSE
             ELSE \A i \in 1..Len(quiz.questions.list) : accepted(quiz.questions.list[i])

\* text.split('\n')
RECURSIVE SplitLines(_)
SplitLines(s) ==
    LET breaks == { j \in 1..Len(s) : s[j] = "\n" }
        first == CHOOSE j \in breaks : \A k \in breaks : j <= k
    IN  IF breaks = {} THEN <<s>>
        ELSE <<SubSeq(s, 1, first - 1)>> \o SplitLines(SubSeq(s, first + 1, Len(s)))

\* the number of characters of s from position i on that are in S, up to
\* the first that is not
Span(s, i, S) ==
    CHOOSE n \in 0..Len(s) :
        /\ \A k \in i..(i + n - 1) : k <= Len(s) /\ s[k] \in S
        /\ i + n > Len(s) \/ s[i + n] \notin S

\* the match of ^\d+\.?\s* at the start of line: the number of digits, of
\* characters matched, and of whitespace characters among them
NumberPrefix(line) ==
    LET d == Span(line, 1, { Digits[k] : k \in 1..Len(Digits) })
        dot == IF d + 1 <= Len(line) /\ line[d + 1] = "." THEN 1 ELSE 0
        w == Span(line, d + dot + 1, Whitespace)
    IN  [digits |-> d, len |-> IF d = 0 THEN 0 ELSE d + dot + w, blanks |-> w]

\* the match of ^[A-Da-d]\)?\.\s* at the start of line: whether the letter,
\* the optional bracket and the dot are there, the number of characters
\* matched and of whitespace characters among them
OptionPrefix(line) ==
    LET letter == line # <<>> /\ line[1] \in {"A", "B", "C", "D", "a", "b", "c", "d"}
        bracket == IF Len(line) >= 2 /\ line[2] = ")" THEN 1 ELSE 0
        dot == Len(line) >= 2 + bracket /\ line[2 + bracket] = "."
        w == Span(line, 3 + bracket, Whitespace)
    IN  [found |-> letter /\ dot,
         len |-> IF letter /\ dot THEN 2 + bracket + w ELSE 0,
         blanks |-> w]

\* the loop of lines 341-359 over the lines left, with the questions closed
\* so far and the current question (none, or one)
RECURSIVE ParseLines(_, _, _)
ParseLines(lines, questions, current_question) ==
    IF lines = <<>> THEN questions \o current_question
    ELSE
        LET line == Strip(Head(lines))
            number == NumberPrefix(line)
            option == OptionPrefix(line)
            is_question ==
                \/ number.digits >= 1 /\ number.blanks >= 1
                \/ line # <<>> /\ line[Len(line)] = "?"
            is_option == option.found /\ option.blanks >= 1
            opened ==
                Dict([question |-> Str(SubSeq(line, number.len + 1, Len(line))),
                      options |-> List(<<>>),
                      correct |-> Num(0),
                      explanation |-> Str(<<>>)])
            extended ==
                Dict([current_question[1].dict EXCEPT
                         !.options = List(@.list
                                          \o <<Str(SubSeq(line, option.len + 1, Len(line)))>>)])
        IN  IF is_question
            THEN ParseLines(Tail(lines), questions \o current_question, <<opened>>)
            ELSE IF is_option /\ current_question # <<>>
            THEN ParseLines(Tail(lines), questions, <<extended>>)
            ELSE ParseLines(Tail(lines), questions, current_question)

\* ResponseParser._parse_text_quiz
_parse_text_quiz(text) ==
    LET questions == ParseLines(SplitLines(text), <<>>, <<>>)
    IN  [success |-> Len(questions) > 0,
         data |-> [quiz |-> [title |-> Str(<<"Generated Quiz">>),
                             questions |-> List(questions)]],
         raw_response |-> text]

\* ResponseParser.parse_quiz_response of a response whose brace-delimited
\* part, when it is well-formed JSON, denotes the object doc
parse_quiz_response(response) ==
    LET response_text == response.text
        first == Find(response_text, "{")
        last == RFind(response_text, "}")
        json_match == first # -1 /\ last > first
        json_str == Slice(response_text, first, last + 1)
    IN  IF json_match /\ JsonLoadsOk(json_str) /\ _validate_quiz_structure(response.doc)
        THEN [success |-> TRUE, data |-> response.doc, raw_response |-> response_text]
        ELSE _parse_text_quiz(response_text)

\* QuizValidator.validate_question_structure of a question that is a dict
validate_question_structure(question) ==
    LET q == question.dict
        required_fields == <<"question", "options", "correct">>
        absent(f) == f \notin DOMAIN q
        missing == SelectSeq(required_fields, absent)
        options == q.options
        correct == q.correct
        text_errors ==
            IF ~Truthy(q.question) \/ q.question.type # "str"
            THEN <<"Question text must be a non-empty string">> ELSE <<>>
        options_errors ==
            IF options.type # "list" THEN <<"Options must be a list">>
            ELSE IF Len(options.list) < MIN_ANSWERS_PER_QUESTION
            THEN <<"Must have at least 2 options">>
            ELSE IF Len(options.list) > MAX_ANSWERS_PER_QUESTION
            THEN <<"Cannot have more than 10 options">>
            ELSE <<>>
        correct_errors ==
            IF correct.type # "int" THEN <<"Correct answer must be an integer">>
            ELSE IF correct.int < 0 \/ correct.int >= PyLen(options)
            THEN <<"Correct answer index is out of range">>
            ELSE <<>>
        explanation_errors ==
            IF /\ "explanation" \in DOMAIN q
               /\ Truthy(q.explanation)
               /\ q.explanation.type # "str"
            THEN <<"Explanation must be a string">> ELSE <<>>
        errors == text_errors \o options_errors \o correct_errors \o explanation_errors
    IN  IF missing # <<>>
        THEN [valid |-> FALSE,
              errors |-> [i \in 1..Len(missing) |->
                             <<"Missing required field: ", missing[i]>>]]
        ELSE [valid |-> errors = <<>>, errors |-> errors]

(***************************************************************************)
(* The inputs the functions are applied to.                                *)
(***************************************************************************)
\* the topics: every text of at most MaxTopicLen characters over these
\* five characters, texts with the words the patterns look for, a text
\* longer than MAX_TOPIC_LENGTH, and values that are no text
TopicValues ==
    { Str(s) : s \in UNION { [1..n -> {"a", "<", ">", " ", "\n"}] :
                               n \in 0..MaxTopicLen } }
    \cup { Str(<<"<", "s", "c", "r", "i", "p", "t", ">", "a", "<", "/", "s", "c", "r", "i", "p", "t", ">", "b", "c", "d">>),
           Str(<<"<", "S", "C", "R", "I", "P", "T", ">", "a", "b", "c">>),
           Str(<<"J", "a", "v", "a", "S", "c", "r", "i", "p", "t", ":", "a", "b", "c">>),
           Str(<<"o", "n", "L", "o", "a", "d">>),
           Str(<<"a", "b", "\t", "c">>),
           Str([i \in 1..(MAX_TOPIC_LENGTH + 1) |-> "a"]),
           None, Num(0), Num(7) }

LanguageValues ==
    { Str(Chars(n)) : n \in {"italian", "english", "french", "spanish", "german",
                             "portuguese", "English", "GERMAN", "klingon", ""} }
    \cup { Str(<<" ">> \o Chars("english") \o <<" ">>), None, Num(1) }

\* the requests given to validate_api_request: every set of keys, each
\* key with a value that passes and values that do not
ApiRequests ==
    { [k \in K |->
          CASE k = "topic" -> t
            [] k = "difficulty" -> d
            [] k = "questions" -> n
            [] k = "language" -> l
            [] k = "includeExplanations" -> e] :
        K \in SUBSET {"topic", "difficulty", "questions", "language",
                      "includeExplanations"},
        t \in {Str(<<"a", "b", "c">>), Str(<<"a", "b">>)},
        d \in {Str(<<"E", "x", "p", "e", "r", "t">>), Str(<<"e", "a", "s", "y">>)},
        n \in {Num(5), Str(<<"0">>), Str(<<"f", "i", "v", "e">>)},
        l \in {Str(Chars("english")), Str(Chars("klingon"))},
        e \in {Str(<<"y", "e", "s">>), Num(0)} }

Filenames ==
    { Str(<<"a", ".", "t", "x", "t">>), Str(<<"a", " ", "b", ".", "t", "x", "t">>),
      Str(<<"a", ".", "e", "x", "e">>), Str(<<"a", "/", "b", ".", "e", "x", "e">>),
      Str(<<"n", "o", "t", "e", "s">>), Str(<<"A", ".", "T", "X", "T">>),
      Str(<<"a", ".", "b", ".", "m", "d">>), Str(<<"a", "-", "b", "_", "c", ".", "c", "s", "v">>),
      Str(<<"q", "1", ".", "j", "s", "o", "n">>), Str(<<>>), None }

\* the bodies given to validate_request_data: those of Bodies that are
\* JSON objects, the languages of the model, and bodies with two defects
DataBodies ==
    { b \in Bodies : b.is_json }
    \cup { Body(TRUE, AllFields, <<"a">>, TRUE, 2, l) :
             l \in {"french", "spanish", "german", "portuguese", "GERMAN",
                    "klingon", ""} }
    \cup { Body(TRUE, {"topic", "questions"}, <<" ">>, TRUE, 51, "english"),
           Body(TRUE, AllFields, <<>>, FALSE, 0, "klingon"),
           Body(TRUE, {"questions"}, <<"a">>, TRUE, 0, "english") }

PromptParams ==
    [topic : {Str(<<"a", "b", "c">>)},
     random_topic : {Str(<<"t", "r", "u", "e">>), Str(<<"f", "a", "l", "s", "e">>)},
     num_of_questions : {Str(<<"1">>), Num(1), Str(<<"2">>), Num(2), Str(<<"1", "0">>), Num(10)},
     num_of_replies : {Str(<<"2">>), Num(4)},
     language : {Str(Chars("english"))}]

Counts == {Num(1), Num(2), Num(0), Num(10), Str(<<"1">>), Str(<<"3">>)}

\* bodies that pass validate_request_data and differ in the blanks around
\* the topic, in the topic, in the count and in the language
PromptBodies ==
    { Body(TRUE, AllFields, t, TRUE, n, l) :
        t \in { <<"a", "b", "c">>, <<"a", "b", "c", " ">>,
                <<" ", "a", "b", "c">>, <<"a", "b", "d">> },
        n \in {1, 2},
        l \in {"english", "italian"} }

\* the longest raw text among the enumerated raw texts
MaxRawLen == 3

\* every text of at most MaxRawLen characters that are a brace or another
\* character
RawTexts == UNION { [1..n -> {"{", "}", "t"}] : n \in 0..MaxRawLen }

\* the raw responses given to the parser: those of the pipeline and every
\* enumerated text
ParserInputs == RawResponses \cup { [text |-> t, doc |-> DocA] : t \in RawTexts }

\* the parameter maps given to generate_content: every set of the keys it
\* reads, each key with a value that passes and values that do not, and the
\* map of test_generate_content_with_invalid_params
ParamMaps ==
    { [k \in K |->
          CASE k = "topic" -> t
            [] k = "num_of_questions" -> q
            [] k = "num_of_replies" -> r
            [] k = "language" -> l] :
        K \in SUBSET {"topic", "num_of_questions", "num_of_replies", "language"},
        t \in {Str(<<"a", "b", "c">>), Str(<<>>)},
        q \in {Str(<<"3">>), Num(-1), Num(51), Str(<<"f", "i", "v", "e">>), None},
        r \in {Str(<<"4">>), Num(1)},
        l \in {Str(Chars("english")), Str(Chars("german"))} }
    \cup { [k \in {"topic", "difficulty", "questions"} |->
               CASE k = "topic" -> Str(<<>>)
                 [] k = "difficulty" -> Str(<<"i", "n", "v", "a", "l", "i", "d">>)
                 [] k = "questions" -> Num(-1)] }

\* the most lines of an enumerated plain-text response
MaxQuizLines == 3

\* lines of a plain-text quiz: numbered questions with and without a blank
\* after the number, a question that ends with '?', options with a dot,
\* with a bracket and a dot, with a bracket only, other text, an option
\* between blanks and the empty line
QuizLines ==
    { <<"1", ".", " ", "q">>, <<"2", " ", "q", "?">>, <<"q", "?">>, <<"1", ".", "q">>,
      <<"A", ".", " ", "x">>, <<"b", ")", ".", " ", "y">>, <<"A", ")", " ", "x">>,
      <<"x">>, <<" ", "c", ".", " ", "z", " ">>, <<>> }

\* '\n'.join(ls)
RECURSIVE JoinLines(_)
JoinLines(ls) ==
    IF Len(ls) = 1 THEN ls[1] ELSE ls[1] \o <<"\n">> \o JoinLines(Tail(ls))

QuizTexts ==
    { JoinLines(ls) : ls \in UNION { [1..n -> QuizLines] : n \in 1..MaxQuizLines } }

\* the questions given to the two validators: every set of keys, each key
\* with values that pass and values that do not
Questions ==
    { Dict([k \in K |->
               CASE k = "question" -> q
                 [] k = "options" -> o
                 [] k = "correct" -> c
                 [] k = "explanation" -> e]) :
        K \in SUBSET {"question", "options", "correct", "explanation"},
        q \in {Str(<<"q">>), Str(<<>>), Num(7)},
        o \in { List(<<>>), List(<<Str(<<"x">>)>>), List(<<Str(<<"x">>), Str(<<"y">>)>>),
                List([i \in 1..(MAX_ANSWERS_PER_QUESTION + 1) |-> Str(<<"x">>)]),
                Str(<<"x", "y">>) },
        c \in {Num(-1), Num(0), Num(1), Num(2), Str(<<"0">>), None},
        e \in {Str(<<"e">>), Str(<<>>), Num(5)} }

\* the JSON object {"quiz": {"questions": qs}}
QuizOf(qs) == [quiz |-> [questions |-> List(qs)]]

\* the questions of the JSON objects of the model: a well-formed one, one
\* with the index past the options, one with a negative index, one with a
\* single option, one without index, and one that is no object
QuizQuestions ==
    LET two == List(<<Str(<<"x">>), Str(<<"y">>)>>)
    IN  { Dict([question |-> Str(<<"q">>), options |-> two, correct |-> Num(1)]),
          Dict([question |-> Str(<<"q">>), options |-> two, correct |-> Num(2)]),
          Dict([question |-> Str(<<"q">>), options |-> two, correct |-> Num(-1)]),
          Dict([question |-> Str(<<"q">>), options |-> List(<<Str(<<"x">>)>>),
                correct |-> Num(0)]),
          Dict([question |-> Str(<<"q">>), options |-> two]),
          Str(<<"q">>) }

\* the JSON objects of the responses: without 'quiz', without 'questions',
\* with questions that are no list, and with every list of at most two of
\* the questions above
QuizData ==
    { [topic |-> Str(<<"t">>)],
      [quiz |-> [title |-> Str(<<"t">>)]],
      [quiz |-> [questions |-> Str(<<"q">>)]] }
    \cup { QuizOf(qs) : qs \in UNION { [1..n -> QuizQuestions] : n \in 0..2 } }

\* the responses given to parse_quiz_response: every enumerated plain text,
\* and each JSON object alone, after a question line, in a text whose
\* braces do not close and in a text without a brace pair
QuizResponses ==
    { [text |-> t, doc |-> [topic |-> Str(<<"t">>)]] : t \in QuizTexts }
    \cup { [text |-> t, doc |-> d] :
             t \in { <<"{", "}">>, <<"q", "?", "\n", "{", "}">>, <<"{", "q", "?">>,
                     <<"}", "{">> },
             d \in QuizData }

(***************************************************************************)
(* Applying a function: fn names it, arg is its argument, ret is empty     *)
(* until it returns and then holds the value returned.                     *)
(***************************************************************************)
Pipeline ==
    <<Clock, started, RATE_LIMIT_CACHE, REQUEST_CACHE, Counters, pc, req, loc, out,
      stages, Ghost>>

ValidateTopic ==
    /\ fn = "validate_topic" /\ ret = <<>>
    /\ ret' = <<validate_topic(arg)>>
    /\ UNCHANGED <<fn, arg, self, hist, Pipeline>>

ValidateLanguage ==
    /\ fn = "validate_language" /\ ret = <<>>
    /\ ret' = <<validate_language(arg)>>
    /\ UNCHANGED <<fn, arg, self, hist, Pipeline>>

ValidateApiRequest ==
    /\ fn = "validate_api_request" /\ ret = <<>>
    /\ ret' = <<validate_api_request(arg)>>
    /\ UNCHANGED <<fn, arg, self, hist, Pipeline>>

ValidateFileUpload ==
    /\ fn = "validate_file_upload" /\ ret = <<>>
    /\ ret' = <<validate_file_upload(arg)>>
    /\ UNCHANGED <<fn, arg, self, hist, Pipeline>>

ValidateRequestData ==
    /\ fn = "validate_request_data" /\ ret = <<>>
    /\ ret' = <<validate_request_data(arg)>>
    /\ UNCHANGED <<fn, arg, self, hist, Pipeline>>

\* generate_content, lines 50-63: the parameters are read from the request
\* and handed to _build_prompt
BuildPrompt ==
    /\ fn = "_build_prompt" /\ ret = <<>>
    /\ ret' = <<_build_prompt(arg.topic, arg.random_topic, arg.num_of_questions,
                              arg.num_of_replies, arg.language)>>
    /\ UNCHANGED <<fn, arg, self, hist, Pipeline>>

FormatQuestionCount ==
    /\ fn = "format_question_count" /\ ret = <<>>
    /\ ret' = <<format_question_count(arg)>>
    /\ UNCHANGED <<fn, arg, self, hist, Pipeline>>

\* generate_quiz, lines 386-389, for two requests: the cache key of each
PromptHash ==
    /\ fn = "generate_prompt_hash" /\ ret = <<>>
    /\ ret' = <<[i \in 1..2 |-> generate_prompt_hash(build_openai_prompt(arg[i]))]>>
    /\ UNCHANGED <<fn, arg, self, hist, Pipeline>>

ProcessOpenaiResponse ==
    /\ fn = "process_openai_response" /\ ret = <<>>
    /\ ret' = <<process_openai_response(arg)>>
    /\ UNCHANGED <<fn, arg, self, hist, Pipeline>>

GenerateContent ==
    /\ fn = "generate_content" /\ ret = <<>>
    /\ ret' = <<generate_content(arg.params, arg.backend)>>
    /\ UNCHANGED <<fn, arg, self, hist, Pipeline>>

ParseQuizResponse ==
    /\ fn = "parse_quiz_response" /\ ret = <<>>
    /\ ret' = <<parse_quiz_response(arg)>>
    /\ UNCHANGED <<fn, arg, self, hist, Pipeline>>

ValidateQuestionStructure ==
    /\ fn = "validate_question_structure" /\ ret = <<>>
    /\ ret' = <<validate_question_structure(arg)>>
    /\ UNCHANGED <<fn, arg, self, hist, Pipeline>>

InitFn ==
    /\ InitShared
    /\ InitThreads({1})
    /\ NoObject
    /\ ret = <<>>
    /\ \/ fn = "validate_topic" /\ arg \in TopicValues
       \/ fn = "validate_language" /\ arg \in LanguageValues
       \/ fn = "validate_api_request" /\ arg \in ApiRequests
       \/ fn = "validate_file_upload" /\ arg \in Filenames
       \/ fn = "validate_request_data" /\ arg \in DataBodies
       \/ fn = "_build_prompt" /\ arg \in PromptParams
       \/ fn = "format_question_count" /\ arg \in Counts
       \/ fn = "generate_prompt_hash" /\ arg \in PromptBodies \X PromptBodies
       \/ fn = "process_openai_response" /\ arg \in ParserInputs
       \/ fn = "generate_content"
          /\ arg \in [params : ParamMaps, backend : {"dict", "raises"}]
       \/ fn = "parse_quiz_response" /\ arg \in QuizResponses
       \/ fn = "validate_question_structure" /\ arg \in Questions

NextFn ==
    \/ ValidateTopic
    \/ ValidateLanguage
    \/ ValidateApiRequest
    \/ ValidateFileUpload
    \/ ValidateRequestData
    \/ BuildPrompt
    \/ FormatQuestionCount
    \/ PromptHash
    \/ ProcessOpenaiResponse
    \/ GenerateContent
    \/ ParseQuizResponse
    \/ ValidateQuestionStructure

SpecFn == InitFn /\ [][NextFn]_vars

(***************************************************************************)
(* LearningProgress, src/models/user_models.py.  self holds the fields     *)
(* that the methods assign; the identifiers user_id, content_id and        *)
(* content_type and the metadata are never assigned after construction.    *)
(* A float percentage or score is an integer and the value of              *)
(* datetime.now() is DateTime.                                             *)
(***************************************************************************)
DateTime == [type |-> "datetime"]

\* the counters time_spent and attempts are followed up to MaxCount
MaxCount == 2

\* the percentages given to update_progress: below the range, inside it,
\* its upper end and above it
Percentages == {0 - 10, 0, 50, 100, 150}

\* the scores given to complete_learning and add_attempt
Scores == {None, Num(1), Num(2)}

\* the dataclass defaults
NewLearningProgress ==
    [status |-> "not_started", progress_percentage |-> 0, time_spent |-> 0,
     attempts |-> 0, best_score |-> None, last_accessed |-> None,
     completed_at |-> None, notes |-> None]

\* the best score after a call that reports score
BestScore(best_score, score) ==
    IF score # None /\ (best_score = None \/ score.int > best_score.int)
    THEN score
    ELSE best_score

complete_learning(lp, score) ==
    [lp EXCEPT !.status = "completed",
               !.progress_percentage = 100,
               !.completed_at = DateTime,
               !.last_accessed = DateTime,
               !.best_score = BestScore(lp.best_score, score)]

StartLearning ==
    /\ fn = "LearningProgress"
    /\ self' = IF self.status = "not_started"
               THEN [self EXCEPT !.status = "in_progress", !.last_accessed = DateTime]
               ELSE self
    /\ UNCHANGED <<fn, arg, ret, hist, Pipeline>>

UpdateProgress ==
    /\ fn = "LearningProgress"
    /\ \E percentage \in Percentages, time_spent_delta \in {0, 1} :
        /\ self.time_spent + time_spent_delta <= MaxCount
        /\ LET updated == [self EXCEPT
                   !.progress_percentage = Max(0, Min(100, percentage)),
                   !.time_spent = @ + time_spent_delta,
                   !.last_accessed = DateTime]
           IN  self' = IF updated.progress_percentage >= 100
                          /\ updated.status # "completed"
                       THEN complete_learning(updated, None)
                       ELSE updated
    /\ UNCHANGED <<fn, arg, ret, hist, Pipeline>>

CompleteLearning ==
    /\ fn = "LearningProgress"
    /\ \E score \in Scores : self' = complete_learning(self, score)
    /\ UNCHANGED <<fn, arg, ret, hist, Pipeline>>

AddAttempt ==
    /\ fn = "LearningProgress"
    /\ self.attempts < MaxCount
    /\ \E score \in Scores :
        self' = [self EXCEPT !.attempts = @ + 1,
                             !.last_accessed = DateTime,
                             !.best_score = BestScore(@, score)]
    /\ UNCHANGED <<fn, arg, ret, hist, Pipeline>>

ResetProgress ==
    /\ fn = "LearningProgress"
    /\ self' = [self EXCEPT !.status = "not_started",
                            !.progress_percentage = 0,
                            !.time_spent = 0,
                            !.attempts = 0,
                            !.best_score = None,
                            !.completed_at = None,
                            !.notes = None]
    /\ UNCHANGED <<fn, arg, ret, hist, Pipeline>>

(***************************************************************************)
(* CircularBuffer, src/utils/helpers.py.  self holds capacity, buffer,     *)
(* head and size; head and the slices of get_all count from 0 as in the    *)
(* code, the sequence buffer from 1.  hist is the sequence of the items    *)
(* appended since the construction or the last clear.                      *)
(***************************************************************************)
MaxCapacity == 2
MaxAppends == 3

\* the items appended
Items == {None, Str(<<"x">>), Str(<<"y">>)}

NewCircularBuffer(capacity) ==
    [capacity |-> capacity, buffer |-> [i \in 1..capacity |-> None],
     head |-> 0, size |-> 0]

\* a mutant of get_all: the full buffer is returned as it is stored
get_all_unrotated(b) ==
    IF b.size < b.capacity
    THEN SubSeq(b.buffer, 1, b.size)
    ELSE b.buffer

get_all(b) ==
    IF b.size < b.capacity
    THEN SubSeq(b.buffer, 1, b.size)
    ELSE SubSeq(b.buffer, b.head + 1, Len(b.buffer)) \o SubSeq(b.buffer, 1, b.head)

BufferAppend ==
    /\ fn = "CircularBuffer"
    /\ Len(hist) < MaxAppends
    /\ \E item \in Items :
        /\ self' = [self EXCEPT !.buffer[self.head + 1] = item,
                                !.head = (self.head + 1) % self.capacity,
                                !.size = Min(self.size + 1, self.capacity)]
        /\ hist' = Append(hist, item)
    /\ ret' = <<>>
    /\ UNCHANGED <<fn, arg, Pipeline>>

BufferGetAll ==
    /\ fn = "CircularBuffer"
    /\ ret' = <<List(get_all(self))>>
    /\ UNCHANGED <<fn, arg, self, hist, Pipeline>>

BufferClear ==
    /\ fn = "CircularBuffer"
    /\ self' = [self EXCEPT !.buffer = [i \in 1..self.capacity |-> None],
                            !.head = 0,
                            !.size = 0]
    /\ hist' = <<>>
    /\ ret' = <<>>
    /\ UNCHANGED <<fn, arg, Pipeline>>

(***************************************************************************)
(* retry_operation, src/utils/helpers.py.  arg holds max_attempts and      *)
(* delay, self the loop variable attempt and the position of the call:     *)
(* about to call func, about to sleep, or done.  func is any callable:     *)
(* each call returns a value or raises.  hist is the sequence of the       *)
(* outcomes of the calls of func, and ret the outcome of retry_operation.  *)
(***************************************************************************)
MaxAttempts == 3

\* the delays: time.sleep raises ValueError for a negative length
Delays == {0 - 1, 0, 1}

\* the exceptions that 'except Exception' catches; KeyboardInterrupt derives
\* from BaseException only
CaughtExceptions == {"IOError", "KeyError"}

Returns(value) == [exception |-> "", value |-> value]
Raises(exception) == [exception |-> exception, value |-> None]

FuncOutcomes ==
    { Returns(v) : v \in {Str(<<"a">>), Str(<<"b">>)} }
    \cup { Raises(e) : e \in CaughtExceptions \cup {"KeyboardInterrupt"} }

\* a mutant of IsLastAttempt: the comparison is late by one
IsLastAttemptLate(attempt, max_attempts) == attempt = max_attempts

IsLastAttempt(attempt, max_attempts) == attempt = max_attempts - 1

RetryDone(outcome) ==
    /\ ret' = <<outcome>>
    /\ self' = [self EXCEPT !.at = "done"]

RetryCall ==
    /\ fn = "retry_operation"
    /\ self.at = "call"
    /\ self.attempt < arg.max_attempts
    /\ \E outcome \in FuncOutcomes :
        /\ hist' = Append(hist, outcome)
        /\ IF outcome.exception \in CaughtExceptions
              /\ ~IsLastAttempt(self.attempt, arg.max_attempts)
           THEN /\ self' = [self EXCEPT !.at = "sleep"]
                /\ ret' = ret
           ELSE RetryDone(outcome)
    /\ UNCHANGED <<fn, arg, Pipeline>>

RetrySleep ==
    /\ fn = "retry_operation"
    /\ self.at = "sleep"
    /\ IF arg.delay * (2 ^ self.attempt) < 0
       THEN RetryDone(Raises("ValueError"))
       ELSE /\ self' = [attempt |-> self.attempt + 1, at |-> "call"]
            /\ ret' = ret
    /\ UNCHANGED <<fn, arg, hist, Pipeline>>

\* range(max_attempts) is exhausted: the function falls off its end
RetryEnd ==
    /\ fn = "retry_operation"
    /\ self.at = "call"
    /\ self.attempt >= arg.max_attempts
    /\ RetryDone(Returns(None))
    /\ UNCHANGED <<fn, arg, hist, Pipeline>>

(***************************************************************************)
(* The specification of the objects: one object is constructed and its     *)
(* methods are applied in every order.                                     *)
(***************************************************************************)
InitObj ==
    /\ InitShared
    /\ InitThreads({1})
    /\ ret = <<>>
    /\ hist = <<>>
    /\ \/ /\ fn = "LearningProgress"
          /\ arg = <<>>
          /\ self = NewLearningProgress
       \/ /\ fn = "CircularBuffer"
          /\ arg = <<>>
          /\ \E capacity \in 1..MaxCapacity : self = NewCircularBuffer(capacity)
       \/ /\ fn = "retry_operation"
          /\ arg \in [max_attempts : 0..MaxAttempts, delay : Delays]
          /\ self = [attempt |-> 0, at |-> "call"]

NextObj ==
    \/ StartLearning
    \/ UpdateProgress
    \/ CompleteLearning
    \/ AddAttempt
    \/ ResetProgress
    \/ BufferAppend
    \/ BufferGetAll
    \/ BufferClear
    \/ RetryCall
    \/ RetrySleep
    \/ RetryEnd

SpecObj == InitObj /\ [][NextObj]_vars

\* the function named f has returned
Returned(f) == fn = f /\ ret # <<>>

\* the number of errors a complete validation of request r reports: one
\* for each required key that is missing and one for each rule that a key
\* that is present violates
ExpectedErrors(r) ==
    LET required == {"topic", "difficulty", "questions", "language"}
        violated(f) == IF f \in DOMAIN r THEN Len(validator(f, r[f]).errors) ELSE 0
    IN  Cardinality(required \ DOMAIN r) + violated("topic") + violated("difficulty")
        + violated("questions") + violated("language")

\* the same count for a body given to validate_request_data, whose rules
\* are those of lines 147-159
ExpectedDataErrors(b) ==
    LET has(f) == f \in b.fields
        one(bad) == IF bad THEN 1 ELSE 0
    IN  Cardinality(AllFields \ b.fields)
        + one(has("topic") /\ Len(Strip(b.topic)) = 0)
        + one(has("questions")
              /\ (~b.questions.int \/ b.questions.val < MinQuestions
                  \/ b.questions.val > MaxQuestions))
        + one(has("language") /\ b.language \notin valid_languages)

\* C14: request validation reports one error for each missing required key
\* and one for each rule violated by a key that is present; it does not
\* stop after the first group of errors
C14_AggregateValidation ==
    /\ Returned("validate_api_request") =>
          Len(ret[1].errors) = ExpectedErrors(arg)
    /\ Returned("validate_request_data") =>
          (IF ret[1].ok THEN 0 ELSE 1) = ExpectedDataErrors(arg)

\* an outcome is valid with no error and a sanitized value, or invalid with
\* errors and no sanitized value
Populated(r, sanitized) ==
    \/ r.valid /\ r.errors = <<>> /\ sanitized
    \/ ~r.valid /\ r.errors # <<>> /\ ~sanitized

\* C15: the outcome of every validator is fully populated, never a mix of
\* the valid and the invalid outcome
C15_FullyPopulated ==
    /\ Returned("validate_topic") =>
          Populated(ret[1], "sanitized_value" \in DOMAIN ret[1])
    /\ Returned("validate_language") =>
          Populated(ret[1], "sanitized_value" \in DOMAIN ret[1])
    /\ Returned("validate_api_request") =>
          Populated(ret[1], DOMAIN ret[1].sanitized_data # {})
    /\ Returned("validate_file_upload") =>
          Populated(ret[1], "sanitized_filename" \in DOMAIN ret[1])

\* C16: the sanitized value of an accepted topic has no substring <...>:
\* the tag pattern finds nothing in it
C16_NoResidualTag ==
    Returned("validate_topic") /\ ret[1].valid =>
        \A i \in 1..Len(ret[1].sanitized_value.str) :
            MatchEnd("tag", ret[1].sanitized_value.str, i) = 0

\* C17: the sanitized value of an accepted topic has between 3 and
\* MAX_TOPIC_LENGTH characters
C17_SanitizedTopicLength ==
    Returned("validate_topic") /\ ret[1].valid =>
        /\ Len(ret[1].sanitized_value.str) >= 3
        /\ Len(ret[1].sanitized_value.str) <= MAX_TOPIC_LENGTH

\* the text l is, letter case apart, one of italian, english, french,
\* spanish, german
IsListedLanguage(l) == Lower(l) \in { Chars(n) : n \in valid_languages }

\* C18: a language is accepted exactly when it is, letter case apart, one
\* of italian, english, french, spanish, german
C18_LanguageMembership ==
    /\ Returned("validate_language") /\ arg.type = "str" =>
          (ret[1].valid <=> IsListedLanguage(arg.str))
    /\ ( /\ Returned("validate_request_data")
         /\ "language" \in arg.fields
         /\ validate_request_data([arg EXCEPT !.language = "english"]).ok ) =>
          (ret[1].ok <=> IsListedLanguage(Chars(arg.language)))

\* the sanitized parameters of a body: what the validators return for its
\* topic, its count and its language
SanitizedParams(b) ==
    [topic |-> validate_topic(Str(b.topic)).sanitized_value,
     questions |-> validate_questions_count(Num(b.questions.val)).sanitized_value,
     language |-> validate_language(Str(Chars(b.language))).sanitized_value]

\* C19: two requests with the same sanitized parameters have the same
\* prompt and so the same cache key
C19_CacheKeyDeterminism ==
    Returned("generate_prompt_hash")
    /\ SanitizedParams(arg[1]) = SanitizedParams(arg[2]) =>
        ret[1][1] = ret[1][2]

\* C20: a count of 1, given as a number or as a text, is phrased in the
\* singular; a count above 1 is written out before the plural phrase
C20_SingularPlural ==
    /\ Returned("_build_prompt") =>
          LET n == ParseInt(arg.num_of_questions).val
          IN  /\ n = 1 => ret[1].questions_text = <<"one question">>
              /\ n > 1 => ret[1].questions_text
                              = DecimalText(n) \o <<" questions, each">>
    /\ Returned("format_question_count") /\ ParseInt(arg).ok =>
          LET n == ParseInt(arg).val
          IN  /\ n = 1 => ret[1] = <<"1 domanda">>
              /\ n > 1 => ret[1] = DecimalText(n) \o <<" domande">>

\* the text s has no '{' that a '}' follows
NoBracePair(s) == ~\E i, j \in 1..Len(s) : i < j /\ s[i] = "{" /\ s[j] = "}"

\* C21: for every raw text without a brace pair (no '{', no '}', or the
\* last '}' before the first '{') the parser fails with the error that says
\* no JSON was found, and never returns success
C21_NoJsonFound ==
    Returned("process_openai_response") /\ NoBracePair(arg.text) =>
        /\ ~ret[1].success
        /\ ret[1].error = "No valid JSON found in response"

\* the parameter map fails validation: the topic is empty, the difficulty
\* is given and unknown, the question count is missing or below 1, or the
\* language is missing
InvalidParams(params) ==
    \/ "topic" \in DOMAIN params /\ params.topic = Str(<<>>)
    \/ "difficulty" \in DOMAIN params
       /\ params.difficulty.str \notin SUPPORTED_DIFFICULTIES
    \/ "num_of_questions" \notin DOMAIN params
    \/ ParseInt(params.num_of_questions).ok /\ ParseInt(params.num_of_questions).val < 1
    \/ "language" \notin DOMAIN params

\* C23: with a backend that answers, generate_content returns a dict and
\* raises no exception for every parameter map that fails validation
C23_GracefulInvalidParams ==
    Returned("generate_content") /\ arg.backend = "dict" /\ InvalidParams(arg.params) =>
        /\ ret[1].exception = ""
        /\ ret[1].result = "dict"

\* C26: whenever parse_quiz_response returns success, from the JSON part or
\* from the plain-text fallback, the data it returns satisfies
\* _validate_quiz_structure: every question has question, options and
\* correct, at least 2 options and a correct index inside the options
C26_ParsedQuizIsValid ==
    Returned("parse_quiz_response") /\ ret[1].success =>
        _validate_quiz_structure(ret[1].data)

\* C27: every question that ResponseParser._validate_quiz_structure accepts
\* is accepted by QuizValidator.validate_question_structure
C27_ValidatorsAgree ==
    Returned("validate_question_structure")
    /\ _validate_quiz_structure(QuizOf(<<arg>>)) =>
        ret[1].valid

\* C28: after any sequence of start_learning, update_progress,
\* complete_learning, add_attempt and reset_progress the percentage of a
\* LearningProgress is between 0 and 100, and a completed one has
\* percentage 100 and its completion time set
C28_CompletedMeansFull ==
    fn = "LearningProgress" =>
        /\ self.progress_percentage >= 0
        /\ self.progress_percentage <= 100
        /\ self.status = "completed" =>
            /\ self.progress_percentage = 100
            /\ self.completed_at # None

\* the last n items of the sequence s, oldest first
LastItems(s, n) == SubSeq(s, Len(s) - n + 1, Len(s))

\* C29: after any sequence of append and clear on a CircularBuffer of
\* capacity c >= 1 the size is at most c, the head is in 0..c-1, and
\* get_all returns the last min(n, c) of the n items appended since the
\* last clear, oldest first
C29_LastItemsInOrder ==
    fn = "CircularBuffer" =>
        /\ self.size <= self.capacity
        /\ self.head >= 0
        /\ self.head < self.capacity
        /\ ret # <<>> =>
            ret[1] = List(LastItems(hist, Min(Len(hist), self.capacity)))

\* get_all has returned from a buffer that has wrapped around and whose
\* oldest item is not in the first slot
C29_Witness ==
    /\ fn = "CircularBuffer"
    /\ ret # <<>>
    /\ Len(hist) > self.capacity
    /\ self.head # 0
    /\ hist[Len(hist)] # hist[Len(hist) - 1]

\* every call of func so far has raised
AllFailed == \A i \in 1..Len(hist) : hist[i].exception # ""

\* C30: retry_operation with max_attempts >= 1 calls func at most
\* max_attempts times, never calls it again after a call that succeeded,
\* returns the value of the first call that succeeds, and raises the
\* exception of the last call when all max_attempts calls fail
C30_RetryStopsAtSuccess ==
    fn = "retry_operation" /\ arg.max_attempts >= 1 =>
        /\ Len(hist) <= arg.max_attempts
        /\ \A i \in 1..(Len(hist) - 1) : hist[i].exception # ""
        /\ hist # <<>> /\ hist[Len(hist)].exception = "" =>
            ret = <<Returns(hist[Len(hist)].value)>>
        /\ Len(hist) = arg.max_attempts /\ AllFailed =>
            ret = <<Raises(hist[Len(hist)].exception)>>

\* all of several attempts have failed, the last one with another exception
\* than the first, and retry_operation has raised
C30_Witness ==
    /\ fn = "retry_operation"
    /\ arg.max_attempts >= 2
    /\ Len(hist) = arg.max_attempts
    /\ AllFailed
    /\ hist[1] # hist[Len(hist)]
    /\ ret # <<>>
====
